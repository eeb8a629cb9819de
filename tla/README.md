# LinkEasy: a TLA+ verification project

LinkEasy is a FastAPI server, a pool of Celery workers with a Beat scheduler,
Redis and a SQL database. Users schedule social posts, drip campaigns on
LinkedIn, feed scans and WhatsApp scans; they sign accounts in and chat through
browsers that the server opens for them. Beat looks once a minute for rows
whose time has come and queues work; workers open browsers or call platform
APIs and write the outcome back. The database row is the durable schedule,
Redis holds short-lived leases and locks, and Celery delivers every message at
least once. What makes the system hard is that none of these three is a
transaction with the others, and that the outside world (LinkedIn, YouTube,
WhatsApp) cannot be rolled back.

Paths below are relative to `src/`.

## Inventory

| part | state it keeps | operations | hard behaviour | what correct means |
|---|---|---|---|---|
| **Social publisher** `worker/tasks/social_scheduler_tasks.py`, `api/v1/social_scheduler.py` | `social_posts`, `social_post_results`, uploaded files, one dispatch lease per post | create, cancel, re-queue, move, retarget, delete; dispatch; claim, upload, record, clean up | at-least-once delivery; a PATCH that loaded the row before a worker claimed it; uploads that outlive the stale limit; partial success; death between claim and outcome | a post is published at most once per time it is handed out; never early; the recorded outcome is the truth; a due post is eventually resolved; its file lives as long as it may be needed |
| **Platform clients** `services/social/*.py` | connected accounts and their tokens; uploads under way on the platform | sign in, renew, store, upload, poll, fall back | rotating refresh tokens; replies that are lost after the platform acted; fallbacks | what a call reports is what the platform has; the stored token is good |
| **Campaign drip engine** `worker/tasks/campaign_tasks.py`, `api/v1/campaigns.py`, `api/v1/leads.py` | `campaigns`, `campaign_steps`, `leads`, `campaign_jobs`, account status | start, pause, restart, delete, add and edit leads, delete steps; dispatch; one session per account | a session works for many minutes on rows it loaded once; rollbacks expire them; dead sessions and blank pages; retries; a crash after LinkedIn acted | steps in order, once, not before their delay; a pause stops the session; one browser per account; a suspended account rests; a due lead is handled |
| **LinkedIn page automation** `automation/actions/*.py` | the page | visit, like, connect, message, recover a blank page | clicks that are swallowed or answered late; dialogs; a session that dies | what is reported as done is done; a dead session is reported as one |
| **WhatsApp scans** `worker/tasks/whatsapp_tasks.py`, `api/v1/whatsapp_scanner.py`, `services/whatsapp_browser.py` | filters with a schedule, groups with a checkpoint, messages, profile lock | activate, pause, trigger, reset, select, delete; dispatch; scroll, scrape, match, forward, commit | the forwarded flags of a scan commit once, after the last message was sent (L803); filters are edited under a scan; a window of a moving chat | a message is forwarded once; none is lost behind the checkpoint; a pause survives the scan |
| **Live browsers, browser views** `services/browser_view.py`, `services/*_live_browser.py`, `api/v1/*_live.py` | one browser per manager, its status, its profile lock, its asyncio locks | connect, watch the QR code, capture, list groups, disconnect; list, open, read, send, stream, stop | coroutines that interleave at every await; a forced release of the lock; one page for all calls; a restart of the process | no browser and no lock is left behind; one browser per profile; a call is served in its own browser and chat |
| **Interactive logins** `automation/session_manager.py`, `api/v1/linkedin.py` | pending sessions in memory, each with a browser and a profile lock | add, verify, submit a code, rename, suspend, delete, expire, clean up | `get_session` drops an expired session without closing its browser (L116-121); rows edited under a login | every opened browser is closed; an account is active only if its own profile signed in |
| **Feed scans** `worker/tasks/feed_scroll_tasks.py`, `api/v1/feed_scroll.py` | feed jobs, results, applications, `next_scan_at`, profile lock, browser slot | create, edit, activate, pause, delete, scan; dismiss, restore, apply; dispatch | the job is read before a scan of many minutes and written after it by another transaction | results match the criteria; a due job is scanned |
| **Dispatch leases, Celery delivery, queue pages** `worker/dispatch_lease.py`, `worker/celery_app.py`, `api/v1/system_queues.py` | a Redis key with an owner token and a TTL; the broker's list; reserved and revoked tasks | claim, release, acknowledge late, redeliver; clean up, purge, revoke, clear locks | a lease that expires or is deleted while its message waits; pages that judge a task stale from a list read before | no double work and no lost work through a lost lease |
| **Profile locks** `worker/profile_lock.py` | a Redis lock per browser profile, TTL 30 minutes | acquire, release by the owner, forced release | a holder that outlives the TTL; one that died | one browser per profile directory |
| **Playwright semaphore** `worker/playwright_semaphore.py` | one counter in Redis | INCR, DECR, EXPIRE | slots of dead workers; the key expires under its users | a waiting scan runs in the end |
| **Users and sessions, erasure** `api/v1/auth.py`, `core/security.py`, `api/v1/user_data.py`, `api/v1/users.py` | users, codes, tokens with a deadline; some twenty tables and files of a user | register, verify, log in, refresh, reset; confirm an erasure, delete | tokens outlive what they say; rows inserted while the erasure's statements run | the deadline is never extended; after an erasure nothing of the user is left |
| Live event hub, API rate limiter, assistant, scoring, scrapers, OCR, PDF, roles, administration reports, frontend, schema | - | - | text, pages, third-party I/O, one statement each | see the end |

How they interact: the API writes rows and, for "publish now", "scan now" and
for starting a campaign, sends one message without a lease; Beat's dispatchers
read the same rows, take a lease in Redis and send a message with its token; a
worker takes the message, claims the row (publisher) or a session lock
(campaigns), takes a slot and the profile lock where it opens a browser, works,
commits, and gives locks and lease back. The interactive logins, browser views
and live chats take the same profile locks from the API process. Nothing but
the rows, the files and the browser profiles survives a restart.

## Modules

| module | models | extends |
|---|---|---|
| `PublishOnce` | what the publisher promises, in four variables | |
| `SocialPublisher` | the publisher in full; `INSTANCE PublishOnce WITH open <- OpenCopies` | |
| `PlatformUploads` | one connected account and the calls of an upload to one platform | |
| `LeadWalk` | what the campaign engine promises about LinkedIn, in three variables | |
| `CampaignSession` | requests, dispatcher and account session of one LinkedIn account; `INSTANCE LeadWalk WITH asked <- performed, behind <- passed, lapses <- faults + resets` | |
| `LinkedInActions` | the actions of such a session on a lead's page | |
| `ProfileLocks`, `PlaywrightSlots` | the lock of a browser profile; the browser slots of all workers | |
| `WhatsAppSessions` | the rows and profiles of a user's devices | `ProfileLocks` |
| `WhatsAppScan` | filters, dispatch and the scan task | `WhatsAppSessions` |
| `MessageHistory` | the reading of one chat, one step of `WhatsAppScan`, window by window | |
| `WhatsAppBrowsers` | the API's browsers on a device, together with the scans | `WhatsAppScan` |
| `LiveChats` | a live chat's page and the calls that share it | |
| `InteractiveLogins` | connecting a LinkedIn account | `ProfileLocks` |
| `FeedScans` | feed jobs, dispatch and the scan task | `ProfileLocks`, `PlaywrightSlots` |
| `WorkQueues` | what the queue pages do to Celery's work | |
| `UserSessions`, `AccountErasure` | a user's tokens; the erasure of an account | |
| `SocialPublisherProofs`, `UploadProofs`, `CampaignSessionProofs`, `WhatsAppScanProofs`, `BrowserProofs`, `LiveChatsProofs` | theorems about the publisher, an upload, campaigns, scans, device browsers and live chats | their module, `TLAPS` |
| `ServiceProofs` | theorems about logins, feed scans and actions on a page | `InteractiveLogins`, `FeedScans`, `LinkedInActions`, `TLAPS` |
| `AccountProofs` | theorems about sessions of users and the erasure of an account | `UserSessions`, `AccountErasure`, `TLAPS` |
| `MC...` | instances for TLC | |

A definition named `Mut...` is a deliberately wrong variant of the definition
after it. The mutation runs put it in that definition's place and expect the
property to fail; nothing else uses it. `PROJECT.json` maps every definition to
the source lines it stands for.

Components that share state are composed: `WhatsAppBrowsers` runs the API's
browsers *with* the scans of `WhatsAppScan`, through the rows, profiles and
locks of `WhatsAppSessions`; logins and campaign browsers meet in
`InteractiveLogins` (`Others`) and `CampaignSession` (`User`). `MCPublishing`,
`MCScans`, `MCScanLiveness`, `MCBrowsers` and `MCServices` put modules that
share nothing into one run: a variable `part`, which never changes, says which
of them moves, the others keep one fixed initial state. Such a run is the sum of
its parts and not their product, and each property is checked on the part it is
about.

### SocialPublisher

One row per post. `delay` is the time to `scheduled_at` and `age` the time
since the row was last written, both in ticks; `StaleTicks` is
`STALE_POSTING_SECONDS`, which equals the lease time. The row disappears on
deletion, its outcome rows with it.

*Requests.* `update_post` and `delete_post` load the row, check it, and write
it back without a lock and without a conditional UPDATE. So a request is two
steps, `Load` and `Commit...`, and anything may happen between them; `Abandon`
ends a request whose row is gone. `CreatePost` commits and may fail to send.

*Dispatch.* `StartDispatch` selects the due rows, then hands rows back that
have been `posting` for longer than the stale limit, in one transaction.
`DispatchPost`, `DispatchHeld` and `DispatchFails` are one post of the loop:
lease taken and message sent, lease held by another, or the broker refusing
(the lease goes back and the rest of the batch is lost). `CrashHoldingLease` is
a death between lease and message.

*Publishing.* `StartPublish` is the conditional UPDATE of `publish_post` with
the insertion of the outcome rows; `SkipPublish` a message that finds nothing to
claim. `Upload` is one platform: it may publish and report success, publish and
report failure, or fail, and without its file it cannot publish. `Record` is
the last transaction: the outcome rows are written whoever owns the row by now,
the status only while it is `posting`. `RecordFails` is its failure, which
`publish_social_post` swallows. `CleanUp` removes the file whoever else uses it
and `Finish` gives the lease back.

*Delivery.* `Crash` puts the message of a dead worker back (`acks_late`,
`reject_on_worker_lost`), `Redeliver` is the broker's visibility time-out while
the task still runs.

`handouts`, `claims` and `uploaded` are history: how often a row became
pending, which of these handouts a worker claimed, and what platforms really
have. They are what `PublishOnce` is about.

### CampaignSession

One account with its campaigns; sessions of different accounts share no row
and no lock. A step list is `StepType`, `Condition` and `Delayed`; the rows of
a campaign that still exist are its `plan`. A lead's `due` is `next_step_at`
(none, later, now), `touched` tells that `last_action_at` is set, `running` and
`failed` count its jobs. Likes and comments, which change a lead as a visit
does, count as visits.

*Requests* are one transaction each: `StartCampaign` (only pending, untouched
leads become due), `PauseCampaign` (deletes the lease whoever owns it),
`RestartCampaign`, `DeleteCampaign`, `AddLead`, `PatchLead`, `DeleteStep`,
`Reconnect` (a verified login), `UserOpens`/`UserCloses` (a login or session
check that has the profile open).

*Dispatch.* `BeatFinds` is the query and the look at the session lock,
`BeatSends` the lease and the message, `BeatGivesUp` a lease already held or a
broker that refuses. The dispatcher asks neither for the account's status nor
for the step rows, the session does.

*Session.* `TakeSession`/`SkipSession` (session lock), `LoadDue` (account and
due leads, joined with their step rows), `OpenProfile`/`ProfileBusy`,
`SessionValid`/`SessionInvalid`, then the loop; at its end `LeadsDone`,
`CloseProfile`, `EndSession`. In the loop: `StopSession` when the campaign, which
is re-read, is no longer active; `SkipLead` when the condition does not hold (an
`accepted` step is put off, another is passed); `BeginAction` commits the job as
running; `Act` is LinkedIn, which may carry out what the worker sees fail; and
`Record...` writes the result: on to the next step, a later retry of a blank
page, a stop, a suspended account, or a roll-back.

The sessions are opened with `expire_on_commit=False`, so a lead row is what it
was when loaded (`seen`) and only attributes that differ from the loaded value
are written (`Written`). A roll-back expires every row: from then on (`fresh`)
rows are what they are at their turn, and one that is gone ends the session
(`RowsGone`). `SkipMismatch` is a lead whose step is no longer the one its
query paired it with.

*Time.* `TimePasses` ends a delay. `LeaseExpires` may come at any time, a
message may wait longer than its lease. `SessionLockExpires` (2 h) and
`ProfileLockExpires` (30 min) come when their holder is gone, or, with
`SlowSessions`, at any time: `MAX_ACTIONS_PER_SESSION` is `None`, so the length of
a session is bounded by nothing in the code.

`performed` and `passed` are history: how often LinkedIn saw each step of a lead,
and the steps done, skipped or passed over by hand since it was last started
over. They are what `LeadWalk` is about: LinkedIn is asked for a step only when the
steps before it are behind the lead, and for one of them again only as often as
there were lapses (faults, restarts, edits by hand).

The daily limit is left out: `check_and_increment` returns TRUE on every path
(`worker/rate_limit.py:126-140`), so the branch for a reached limit is never
taken.

### PlatformUploads

One account of one platform (`host`) with its row and the refresh tokens that
the platform accepts, and the calls that use it at the same time: uploads
(`StartUpload`), the playlist picker (`ListPlaylists`) and sign-ins (`SignIn`).
A call reads the row (`Reads`), renews when the token has expired or, for some
platforms, is about to (`Renews`, which rotates), stores what it got in a
transaction of its own (`Persists`; `PersistDies` is a death in between), and
takes the route of its platform: containers, bytes, polls, the publish request,
and the hand-over from Instagram's direct upload to the public URL. `MayRepeat`
says which requests are repeated after a failure. `LostReplies` adds a publish
whose reply never comes. `TikTokDecides` and `TikTokPolls` are TikTok's own
pace. `SocialPublisher!Upload` abstracts from all this: what it assumes, that a
reported failure has published nothing where it counts, is
`UploadOutcomeIsTrue`.

### LinkedInActions

One lead's page and one call at a time: visit, like, both, connect or message.
LinkedIn is the environment: where it offers Connect, which dialog it answers
with, whether a click opens a composer (`LostClicks`), when Send is enabled, and
when the session dies. `Recover` is the reload of a blank page, `VerifyInThread`
the look into the conversation for a message whose composer closed too early; a
text stands for all that end in the same 40 characters. `told` is what the call
reports; `thread`, `astray`, `bond` and `liked` are what LinkedIn has.

### WhatsApp: sessions, scans, history

`WhatsAppScan` has a row per filter (`status`, `next`, `remaining` in ticks),
the group rows with their checkpoints (`cursor`), and the stored messages
(`rows`, by group row and number). Requests are one transaction each. A bulk
deletion waits for the row locks of a scan that has flushed forwarded flags
(`RowsLocked`). Beat finds due filters and leases and sends them one by one.

A scan takes a message (`StartScan`, `SkipScan`), the profile's lock and the
browser, then one group at a time: `ScrapeGroup` stores what is new *and* moves
the checkpoint in one commit. `Score` commits the verdicts. `Forward` sends one
message: it may report what did not happen and fail to report what did; its flag
is flushed when the next one is read, and `SaveForwarded` commits all flags at the
end. `PlanNextScan` reads the filter again. `FlushRaises` is what rows deleted
under a scan do to it, `ScanCrash` a dead worker, whose message comes back.
`sent` counts what really went out.

`MessageHistory` is the inside of `ScrapeGroup`: a window of `Rows` messages,
scrolled by `Stride` and merged until the checkpoint is seen, the limit reached
or nothing more comes, while the chat grows. What `ScrapeGroup` assumes of it, no
gap before the new checkpoint and nothing from before the old one, is
`NoGapBeforeCheckpoint`, checked in a small chat and proved for every one.

### WhatsAppBrowsers

One device, the managers of its browser view and its live chat, and the
coroutines of the one API process that drive them. A coroutine (`Requests`)
stands for the browser and the lock it takes; it gives way where the code
awaits, and each stretch between two awaits is an action. `Connect` stops the
live chat, resets the view, marks the row, claims the profile, steals its lock
when no browser of its own process holds it (`StealLock`), launches, and spawns a
watcher (`Watches`), which waits for the QR code to be scanned, captures the
profile and stores it, in a race with `Capture`, `Disconnect`, `ListGroups`,
`StartLive`, the user's stops, `ApiRestarts` and the scans (`ScansMove`).
`SharedHost` says that Chromium's own lock file is seen across processes.

### LiveChats

The page of one live browser and the calls that share it: LinkedIn's, one per
process and changing hands between users, or WhatsApp's, one per session. The
three asyncio locks (`life`, `pageQ`, `sendQ`) are queues, their head is the
holder, and the order in which a coroutine takes them is the code's. Starting,
stopping, listing, opening, closing, reading, sending (`Throttled` waits before
it takes the page), streaming, and a profile scan that leaves the chat and comes
back (`VisitProfile`, `RestorePage`). `shown` is the chat on the screen, `active`
the one the manager believes in.

### InteractiveLogins

`acct` has a row per incarnation of an account, `dir` what its profile directory
holds. `AddAccount` inserts, opens a browser and signs in; it ends in an active
row, no row, or a pending session with the browser still open (`HandOver`).
`VerifyAccount` does the same for a row it has loaded, `SubmitCode` types the
code into a pending session's page and sets active the row *it finds by the
session's e-mail*. `PeriodicCleanup` closes what is older than fifteen minutes,
`SubmitLate` is `get_session` on an expired entry, which forgets it with its
browser open. `DeleteAccount`, `RenameAccount`, `ChangePassword` and
`AdminSuspends` edit rows, under a login when `EditsRace`. `Decide` is the
decision table on the page a sign-in ends on.

### FeedScans, with ProfileLocks and PlaywrightSlots

Requests on a job and its results are one transaction each. A scan reads the
job (`FeedStarts`), counts itself in (`FeedCounts`: INCR, and only then
`FeedAdmitted` or `FeedRefused`), takes the profile lock, collects cards
(`FeedCollects`), scores them against the criteria the job has by then
(`FeedScores`), stores the rows (`FeedStores`), and ends. A post the owner applied
to anywhere is left out; an edit of the criteria scores the stored rows again
(`RescoreResults`). `CriteriaRace` lets such an edit land between scoring and
storing.

### WorkQueues

Any leased job (campaign, feed or WhatsApp), the task that Beat sends for it, its
way through the broker, a worker's reserved tasks and its run under a lock; and
the queue pages: `BeginCleanup`, `InspectTasks`, `RevokeStale` and `SweepLeases` are
one clean-up with its reads before its writes; `PurgeQueue`, `RevokeTask`,
`ClearLocks` and `DeleteKeys` are one call each.

### UserSessions and AccountErasure

`UserSessions` has one user's row, the tokens in the client's hands (kind, expiry,
session deadline, and as history the login they descend from) and a clock in
ticks. `AccountErasure` has the tables with their foreign keys (`CascadeKeys`,
`RestrictKeys`), and the erasure as the list of its statements (`Statements`): each
finds rows, deletes rows, deletes links, removes files or commits, and between
two of them other requests and workers insert rows (`Insert`).

## Runs

| run | instance | asks |
|---|---|---|
| `publisher_races` | 1 post, 2 platforms, 2 workers, direct posts; retry, reschedule, delete; slow uploads; 1 fault; 2 handouts | `NoSecondCopyPerHandout`, `ResultsAreHonest`; implements `PublishOnce` (`PublishesOncePerHandout`) |
| `publisher_prompt` | as above, scheduled and direct; prompt uploads. Apart from it: one account, 2 uploads, 1 listing, 1 sign-in, 2 tokens, 2 calls | `OneRunAtATime`, `PostedMeansEveryPlatform`, `RetryableKeepsFile`, `PostedIsFinal`; `UploadOutcomeIsTrue`, `StoredTokenRenews` |
| `publisher_liveness` | 1 platform, 2 tokens, 3 handouts, 1 fault, delay 1; cancel, retarget; under `FairSpec` | `NeverEarly`, `DueIsResolved` |
| `campaign_sessions` | 2 leads, 2 workers, visit-connect, delay before step 2; start, pause, add; no fault | `NoRepeatWithoutFault`, `PauseStopsSession` |
| `campaign_faults` | as above with 1 fault; logins, reconnect, delete, deleted steps, one edit by hand; messages of the API only | `ProfileExclusive`, `SuspendedActsNoMore` |
| `campaign_steps` | 1 lead, connect then message unless accepted; pause, 1 restart or edit of a step or status, 1 fault | `CompleteMeansAllSteps`, `AttemptsBounded`; implements `LeadWalk` (`WalksInOrder`) |
| `campaign_liveness` | 3 steps, the last waits for acceptance; start, pause; 1 fault; under `FairSpec` | `DelayHonoured`, `DueLeadIsHandled` |
| `whatsapp_scans` | 1 filter, 1 group, 2 workers, 2 messages, 2 requests of six kinds, 1 fault. Apart from it: a chat of up to 9 messages in windows of 4; one user's tokens, 5 calls, 5 ticks; an erasure with 2 links, 2 late rows, 2 registrations | `OneScanPerProfile`, `ForwardedOncePerFault`, `CheckpointCovers`, `PauseIsKept`; `NoGapBeforeCheckpoint`; `SessionsEndOnTime`; `ErasedMeansAll` |
| `whatsapp_browsers` | 1 device, 2 requests, 2 watchers, 1 scanning worker, 3 events, 1 restart. Apart from it: 2 users, 3 coroutines, 5 calls, 2 chats | `NothingLeftBehind`, `LiveOwnsProfile`; `OwnBrowserOnly`, `TextStaysInChat` |
| `whatsapp_liveness` | 1 worker, 1 message, activate, pause, reset, 1 fault. Apart from it: 1 job, 2 tasks, 2 page calls, 1 death; under both fairness conditions | `MatchIsForwarded`; `DueIsWorkedOff` |
| `services` | logins: 2 profiles, 2 e-mails, 2 requests, 1 pending session, 3 calls, 1 restart. Feed: 1 job, 2 workers, 1 slot, 3 cards, 2 calls, 1 crash. Actions: 1 text, 2 actions; under their fairness | `OneLoginBrowser`, `ActiveHasSignedIn`, `PendingIsClosed`; `RowsMatchCriteria`, `DueFeedIsScanned`; `ReportedIsDone`, `DeadSessionIsReported` |
| `whatsapp_disconnect` | 1 device, disconnect only | violates `DisconnectRemovesProfile` |

Every property has a mutant of the code under which its run fails; `PROJECT.json`
lists them. Each module also has a type invariant (`ScanTypeOK`,
`BrowserTypeOK`, `LoginTypeOK`, ...); it was checked on the instances above and
is left out of their configurations to keep the runs short.

*Bounds.* Two workers, because every race here is one of two holders: claim
against claim, session against session, session against login; with a third
party, the request or Beat. Two platforms tell partial from full success. Two
handouts give a post a second run while the first may still be going; the
liveness run has three. One fault, placed anywhere, covers a death between any
two steps; a second one repeats what the first left behind. Two leads let a
session stop, go stale or roll back *between* leads and go on with one it had
loaded. Two or three steps give first, middle and last. Two messages let a scan
die between one that went out and one that did not; two requests undo each other
(pause, activate) under a scan, and the invariants behind the theorems were
checked with three (two million states). Windows of 4 rows scrolled by 3 in a
chat of 9 give three overlapping windows and every position of the checkpoint
in them. Three coroutines fill every lock: holder, next, and one behind. A queue
page is used twice, as a third use takes minutes more; five
calls of the session API reach a refresh of a refreshed session, and six held
as well. `Max...` constants appear in guards only: they stop the model, not the
program. Lease tokens stand for uuid4: one that is nowhere any more is fresh
again. The theorems hold for every value of all of these.

*Deadlock.* The publisher's clock always ticks and deadlock is checked. All
other instances may come to rest when the requests are used up under the
bounds (every lead complete, no chat open): their configurations say
`CHECK_DEADLOCK FALSE`.

*Symmetry* is used in runs without liveness only, on workers, tokens, leads,
requests, watchers, uploads and chats, which no definition tells apart.

### Fairness

`SocialPublisher!Fairness`: time passes; a worker that has begun goes on (weak
fairness: nothing disables its next step but a crash); the broker's list is
first-in first-out and Beat adds a tick every minute, so an idle worker comes to
each message and each tick. Workers are busy in between, hence strong fairness.
Sending to the broker may fail, but not always. Users owe nothing.

`CampaignSession!Fairness`: a Beat tick runs again and again (strong, because
the session lock may be held when it looks); a tick that found work ends (weak);
a lease that is free time and again is taken at last (strong: another tick may
hold it); idle workers take messages (strong); sessions go on, timers and TTLs
run out and a user's browser is closed (weak: each has a time-out in the code).
No request, no crash and no *outcome* of an action is fair: LinkedIn may fail
for ever, and leads then end as failed.

`ScannerFairness`: Beat, workers, timers and TTLs as above. Here outcomes are
fair too, strongly: a page that is tried again and again loads, opens a chat and
sends. Without this nothing could be promised: a scan that fails plans its next
one and says no more. Users, the phone and crashes owe nothing.

`WorkFairness`: Beat, workers and TTLs; a clean-up that began ends; no page is
ever used by necessity. `FeedFairness`: Beat, workers, the five minutes after which a
waiting scan gives up (`FeedGivesUp`), leases and the slots' key.
`LoginsFairness`: a request goes on to its end, because every wait of it has a
time-out; pending sessions age; the clean-up loop runs every five minutes for
as long as the process lives.

## What is proved

Checked by TLAPS for every value of the constants that the modules' assumptions
allow, finite or not.

| theorem | module | states |
|---|---|---|
| `TypeCorrect` | `SocialPublisherProofs` | `Spec => []TypeOK` |
| `OneRunCorrect` | | `Spec => []OneRunPerHandout` |
| `NoSecondCopyCorrect` | | `Spec => []NoSecondCopyPerHandout` |
| `Refinement` | | `Spec => PublishesOncePerHandout`, the abstract specification |
| `HonestCorrect` | | `Spec => []ResultsAreHonest` |
| `OneRunAtATimeCorrect` | | `Spec => []OneRunAtATime`, if `PromptUse` |
| `PostedIsFinalCorrect` | | `Spec => PostedIsFinal`, if `PromptUse` |
| `PostedMeansEveryPlatformCorrect` | | `Spec => []PostedMeansEveryPlatform`, if `PromptUse` and no retarget |
| `RetryableKeepsFileCorrect` | | `Spec => []RetryableKeepsFile`, if `PromptUse` and `OwnUploads` |
| `NeverEarlyCorrect` | | `Spec => NeverEarly`, if `NothingPutOff` |
| `UploadTypeCorrect` | `UploadProofs` | `UploadsSpec => []UploadTypeOK` |
| `UploadOutcomeCorrect` | | `UploadsSpec => []UploadOutcomeIsTrue`, if `~LostReplies` |
| `StoredTokenRenewsCorrect` | | `UploadsSpec => []StoredTokenRenews` |
| `TypeCorrect` | `CampaignSessionProofs` | `Spec => []TypeOK` |
| `ProfileCorrect` | | `Spec => []ProfileExclusive`, if `~SlowSessions` |
| `PauseCorrect` | | `Spec => []PauseStopsSession`, if `~SlowSessions` |
| `SuspendedCorrect` | | `Spec => []SuspendedActsNoMore`, if `~SlowSessions` |
| `WalkCorrect` | | `Spec => WalksInOrder`, the abstract specification, if `~SlowSessions` and no edit to a final status |
| `OrderCorrect` | | `Spec => []StepsInOrder`, likewise |
| `CompleteCorrect` | | `Spec => []CompleteMeansAllSteps`, likewise, and no deleted step |
| `AttemptsCorrect` | | `Spec => []AttemptsBounded`, if `~SlowSessions` |
| `DelayCorrect` | | `Spec => []DelayHonoured`, if `~SlowSessions`, no edit of a step and no restart |
| `NoRepeatCorrect` | | `Spec => []NoRepeatWithoutFault`, if `~SlowSessions`, no edit of a step and no restart |
| `RepeatsCorrect` | | `Spec => []RepeatsAreCounted`, if `~SlowSessions`: with restarts and edits, each step at most once and once more per fault, restart and edit |
| `PauseIsKeptCorrect` | `WhatsAppScanProofs` | `ScannerSpec => PauseIsKept` |
| `OneScanPerProfileCorrect` | | `ScannerSpec => []OneScanPerProfile`, if `~SlowScans` |
| `CheckpointCoversCorrect` | | `ScannerSpec => []CheckpointCovers`, if `~ResetsRace` |
| `ForwardedOncePerFaultCorrect` | | `ScannerSpec => []ForwardedOncePerFault`, if neither, and `OneDevice` |
| `NoGapCorrect` | | `HistorySpec => []NoGapBeforeCheckpoint`, if `EveryScrollGains` |
| `NothingLeftBehindCorrect` | `BrowserProofs` | `DeviceSpec => []NothingLeftBehind` |
| `LiveOwnsProfileCorrect` | | `DeviceSpec => []LiveOwnsProfile`, if `~LongBrowsing` |
| `OwnBrowserOnlyCorrect` | `LiveChatsProofs` | `LiveSpec => OwnBrowserOnly` |
| `TextStaysInChatCorrect` | | `LiveSpec => TextStaysInChat`, if neither `Impatient` nor `PageFaults` |
| `LoginTypeCorrect` | `ServiceProofs` | `LoginsSpec => []TypeInv` |
| `OneLoginBrowserCorrect` | | `LoginsSpec => []OneLoginBrowser` |
| `ActiveHasSignedInCorrect` | | `LoginsSpec => ActiveHasSignedIn`, if `~EditsRace` |
| `FeedTypeCorrect` | | `FeedSpec => []FeedTypeOK` |
| `RowsMatchCriteriaCorrect` | | `FeedSpec => []RowsMatchCriteria`, if `~CriteriaRace` |
| `SlotsBoundedCorrect` | | `FeedSpec => []SlotsBounded`, if `~SlowFeedScans` and finitely many workers |
| `DeadSessionIsReportedCorrect` | | `ActionsSpec => []DeadSessionIsReported` |
| `ReportedIsDoneCorrect` | | `ActionsSpec => []ReportedIsDone`, if `~LostClicks` |
| `SessionsEndOnTimeCorrect` | `AccountProofs` | `AuthSpec => []SessionsEndOnTime` |
| `ErasedMeansAllCorrect` | | `ErasureSpec => []ErasedMeansAll` |

A hypothesis is a constant of the model that the code does not keep from being
otherwise; what happens then is listed under "Where code and documentation
disagree". The assumptions on constants are typing and null values that are not
members of the sets they stand beside (`ConstantsAssumption`,
`UploadsAssumption`, `DeviceAssumption`, `ChatsAssumption`, ...).

*The publisher.* `TypeOK` is not inductive: a worker that uploads needs a post,
not `NoPost`, in its message. `TypeInv` adds that. `OneRunPerHandout` is not
inductive either: a state in which a pending row's current handout has already
been claimed satisfies it, and the next claim breaks it. `ClaimsAreTracked`
closes the gap: the current handout of a pending row is unclaimed, claims are
never ahead of the handouts, a run's handout is claimed, and what a platform
has comes from a claimed handout. `SafetyInv` is the conjunction of these with the
two properties. It holds with slow uploads and with every crash and
redelivery: the conditional UPDATE alone carries it. The refinement maps each
action to a claim, an attempt, a hand-out, a giving-up or a stutter, using
`SafetyInv` for the claim's guard and for an attempt's being made once.

*Its outcomes.* `ResultsAreHonest` needs `RunsSeeTruly`: what a run has counted
as published so far, its own uploads and those it found recorded, platforms
have. No assumption is needed. The next three are about rows, which slow uploads
and racing requests really break (see below), so they assume `PromptUse`:
`~SlowUploads`, no cancel, one request at a time. `PromptInv` says that the row
of a run is `posting` and not stale unless it is deleted (`RunsHoldRows`), and
that what a request looked at still holds when it writes (`RequestsAreSafe`).
Every step then either leaves a post alone, ends its run, or frees it while
nothing runs for it (`Quiet`). `PostedMeansEveryPlatform` adds
`RunsCoverTargets`: a run has each platform of its row before it or behind it.

*Its files and times.* A run may remove the file of its post when it ends, so
`RetryableKeepsFile` needs to know of every run at its end that its row is done
with (`FileInv`). `OwnUploads` is a hypothesis on the behaviour and not on a
constant: no two rows name one upload. The upload endpoint gives every file a
name of its own, but `CreatePost` accepts any name, and with a shared one the
property is false. `NeverEarly` rests on `EarlyInv`: a post for which a message is
queued, held by a worker or in a dispatcher's batch is due, or kept by YouTube.
Only a retry or a reschedule sets a delay under such a message, hence
`NothingPutOff`; cancels, retargets and deletions may race freely.

*An upload.* `Outcomes` follows a call through its route: how many copies the
platform has at each stage, that a stage that may be repeated has none yet, and
that a fallback starts only where the first route has left nothing.
`StoredTokenRenews` needs four invariants about the tokens in flight:
`Numbered` (tokens are numbered as they are issued), `HeldIsGood` (a token that is
about to be stored is one the platform accepts), and, where a renewal rotates
the token, `HeldByOne` (nobody else has it) and `RenewsThisRow` (who renews the
stored token read it from the row that is there).

*Campaigns.* `SafetyInv` names the holders. `OneSession`: a worker in a session
has the session lock. `HoldsProfile`: a worker or login with a browser has the
profile lock. `ActiveAccount`: a session past its look at the account works for
an active one; only the session itself suspends it, and it leaves at once.
`LateCounts`: no campaign that is active, and none whose lead is being acted
on, has seen a late action; hence at most one. Each is needed for the next:
without `OneSession` two sessions could act on one paused campaign, or one go on
after the other suspended the account. `~SlowSessions` is needed: when the locks
of a living session expire, a second session takes them and all three
properties fail (see below).

*Leads and steps.* The theorems on leads add `Loaded`, that only the one
session has leads in hand, and argue over the nine things a session can do to a
lead (`Begins`, `Acts`, `PassesOver`, `Skips`, `Succeeds`, `Retries`, `Stops`,
`Suspends`, `Errs`), the load of its leads, requests, the end of a delay and
steps that leave leads alone, which `NextShape` derives from the actions once.
`InOrder`: every step before the row's, and before the copy's that a session
holds, is behind the lead. It needs that a held lead has no final status,
because a restart takes back what is behind a failed or skipped lead. An edit of
a step, at any moment, passes over the steps before it at the owner's wish; an
edit to a status that ends a lead would let a restart take back the steps of a
lead that a session still holds, and is the one hypothesis left beside
`~SlowSessions`. `CompleteCorrect` also needs whole step lists (`WholePlans`): a
session takes the lack of a successor for the end. `FailureCounts` counts: a
workable lead has failed less often than its bound, one in a session too, so
the failure being recorded is within it. `Waited` says that a lead that is due
for a delayed step after the first has waited, in the row and in every copy; a
restart makes any lead due, and an edit moves one without its delay.

`AskedOnce` is the delicate one. From the step a lead may be loaded for, LinkedIn
has been asked for each step `Lapses` times at most, unless the session that
holds the lead has just asked once more (`Counted`); the same is true from the
step of every copy in a session on, so that a late write cannot take the row
back to a step already done; and a lead that was never touched has not been
acted on at all, so that starting a campaign again is harmless. A rollback
forgets an action that LinkedIn performed: that is the fault the bound counts.
A restart or an edit puts a lead anywhere, also under a session that has
already acted on it, but raises the bound by one, which clears every lead
again. Where neither can happen, `Lapses` is `faults` and `AskedOnce` gives
`NoRepeatCorrect`; otherwise it is `faults + resets` and gives `RepeatsCorrect`.

*The walk of a lead.* `WalkCorrect` is the refinement: `InOrder` gives the guard
of `Ask` and `LeaveBehind`, that the steps before are behind the lead, and
`AskedOnce` the guard of `Ask`, that the step has been asked for `lapses` times
at most. A restart is `StartOver` of the failed and skipped leads, an edit `SetTo`
or, if it keeps the step, a mere `Lapse`; a death is a `Lapse`, an action that raises
an `Ask` with a lapse, or the lapse alone if LinkedIn saw nothing; everything
else is a stutter. With `SlowSessions` a second session asks again for what the
first has just asked for.

*WhatsApp scans.* `HoldsLock`: a scan with a browser has the lock of its
profile. `CheckpointCovers` rests on two invariants: `Cursors`, that no
checkpoint is ahead of its chat and each is covered by stored messages, and
`Reading`, that the same is true of the copies which running scans loaded. A
reset under a scan breaks the second: hence `~ResetsRace`. For
`ForwardedOncePerFault`, `Outbox` describes what a scan has in hand: messages
of its own filter that are not marked as forwarded, or, once sent, are marked in
its transaction and nowhere else; `Owed`: an unmarked message that no scan has
sent has been forwarded once per fault at most; `Gone`: a deleted filter keeps
nothing. Two scans of one filter would both hold its messages, and only the
profile lock keeps them apart: hence `~SlowScans`, and `OneDevice`, that a filter
names its device or the owner has only one. A filter that names none takes the
newest device; when one is connected during a scan the next scan has another
profile and another lock, and the same message may go out from both.

*Reading a chat.* `NoGapBeforeCheckpoint` speaks of the end of a reading;
`HistoryInv` says what holds on the way. What has been read is in order, but for
messages that came after the newest of the first window (`Merged`), and what has
not been read below the newest is older than all of it (`Closed`): the reading
is a gapless stretch of the chat that grows downwards. A scroll keeps it so,
because the window it shows reaches up to what has been read (`Overlaps`,
`PaneRead`) and holds something new (`OneWordless`, `Gains`), so that a window
that adds nothing is the top of the chat. `Ends`: the scraper cuts when it has a
full limit or everything down to the mark. That a window put in order keeps its
members needs no induction over data: `InOrder` *chooses* an ordering, and the
lemmas `Extremes`, `Ordered` and `Neighbours` show that there is one, each
message at the place its rank gives it, by counting the smaller ones.
`EveryScrollGains` is the hypothesis: a scroll moves by more messages than may
arrive and be wordless within it, and forty scrolls, after which the code gives
up, are enough for the limit, which the schema lets be 100
(`schemas/whatsapp.py:147`). Where a scroll shows nothing readable the scraper
stops early, and the gap is real (see below).

*Device browsers.* `NothingLeftBehind` has no hypothesis. `BrowserInv` says for
each stretch between two awaits whose browser and whose lock it is: a Chromium
belongs to a manager or to the one coroutine that is about to hand it over or
close it (`Browsers`); a lock in the API's name has a manager or such a coroutine
(`Reserved`); view and live chat never have one lock together (`TwoLocks`); a live
chat that starts has none yet (`LiveStarts`). `LiveOwnsProfile` adds `LiveLocked`;
a lock that expires under its browser is what `LongBrowsing` allows. A stolen
lock is not in the way: `StealLock` looks for a live chat of its own process
first, and the process is one.

*Live chats.* `QueueInv` holds of the LinkedIn browser: each coroutine is once in
a queue (`Waiting`); who launches owns what comes and who stops is the last to
get the page (`Changing`); nobody waits for the page of a browser that does not
run, and only its owner's calls for one that does (`Serving`). The queues are
sequences whose head leaves and whose tail grows. `TextStaysInChat` adds
`ChatInv`: the chat on the screen is the active one whenever the page is free,
and a text that waits names it. It holds for LinkedIn because the page's queue
drains before another browser comes up (`Paged`), and for WhatsApp because
nobody stops a device's browser under a waiting text (`DeviceInv`): two arguments
for one property, as the two managers are two pieces of code.

*Logins.* `HoldsLock` names, for each profile, the request, pending session or
other browser that has it open, and says that it holds the lock: every path
closes the browser before it releases. That a lock outlives its browser is part
of the model (`LoginLockExpires`): a sign-in of minutes and a pending session of
at most twenty end within its thirty. `ActiveHasSignedIn` needs `RowsInv`: requests and
pending sessions know their row by an e-mail that no other row has, a row that
is being added is nobody else's business, a row has its directory, and a code
that was taken has signed in the profile of its session. `~EditsRace` is
needed. With it: *a* is added; the administrator suspends it during the sign-in;
a verification of *a* starts and waits for the lock; the sign-in fails and
deletes *a*; the e-mail is added again as *b*; the verification, on its stale
row, gets as far as a code; the code is typed, and *b*, found by the e-mail, is
active though its own profile never signed in.

*Feed scans.* `SavedMatch`: what a scan is about to store matches the criteria
that the job has now, not those it was scored by; an edit between the two is
`CriteriaRace`. `SlotInv` counts for the semaphore: the workers between INCR and
DECR are no more than the counter, and those let in no more than the limit.
No run lists `SlotsBounded`.

*Actions on a page.* `ActionInv` relates what a call knows to the page it is on:
a call whose session was dead at its beginning gets no further than the loading
of the page. `LeadsComposer` says that the composer a call types into is the
lead's, which one lost click makes false: hence `~LostClicks`.

*Sessions.* A token carries the deadline of its login and dies no later, and a
refresh token no earlier than its own length makes it (`SessionInv`).

*Erasure.* No hypothesis either: rows may be inserted between any two
statements, and a foreign key may refuse any of them. `RowsInv` keeps the foreign
keys intact for the rows that are there *and* for those together with the ones
deleted so far, because a refused statement rolls back to these. Cascades reach
two tables and no further (`ShortCascades`), which replaces the recursion of the
schema. From the statement that deletes the user on there is no user row, and
without one no row can be: the foreign keys of every row lead to it. `VideoInv` and `LinkInv` follow the
two things without a foreign key, the files and the mailed links.

*Model-checked only.* Liveness and anything with ENABLED is beyond the prover:
`DueIsResolved`, `DueLeadIsHandled`, `MatchIsForwarded`, `DueIsWorkedOff`,
`PendingIsClosed`, `DueFeedIsScanned`. Every safety property of a passing run is
also a theorem. No module uses RECURSIVE.

## Where code and documentation disagree

`whatsapp_disconnect` ends in a violation: `_cancel_whatsapp_session_jobs` reads
`settings`, which `api/v1/whatsapp_scanner.py` never imports (L920). The row is
committed as disconnected, the request ends with a 500, and the profile, which
L1008 promises to remove, stays.

The models show more. Each line names the property and what must change in the
configuration of a run above for TLC to show it; a property without a change is
false of that run's instance as it stands and is listed in no configuration.

*Publisher and platforms.*

- `PublishedOnce`, in `publisher_races` without requests: a row `posting` for more
  than two hours is handed back while its worker still uploads, and the post is
  published twice. `social_scheduler_tasks.py:25` says that never happens.
- `RetryableKeepsFile`, with two posts from one upload: the worker removes the
  file of a published post although another post still waits for it; deletion
  through the API does look (`social_scheduler.py:682`).
- `NeverEarly`, with `"reschedule"` in `ApiOps`: a queued task looks at the
  status, not at the time. `NothingPutOff`, the hypothesis of its theorem, leaves
  out exactly the requests that set a new time.
- `OnlyScheduledIsCancelled`, with `"cancel"`, and `PostedMeansEveryPlatform`, with
  `"retarget"`: a request writes what it checked before a worker claimed the row.
- `UploadOutcomeIsTrue`, with `LostReplies = TRUE`: Instagram's fallback publishes a
  second time when the reply to the first publish was lost. `publish_reel` says
  "Falling back is safe against double-posting". TikTok's time-out is reported
  as a failure though TikTok may still publish.

*Campaigns and LinkedIn.*

- `ProfileExclusive`, with `SlowSessions = TRUE`: `profile_lock.py:46` says a
  healthy session never loses its lock, on the strength of
  `SESSION_DURATION_MAX`, which is a target for pauses and caps nothing. The
  same holds of `docs/celery_scheduler.md:13`, that the locks and leases
  prevent overlapping sessions.
- `CompleteMeansAllSteps`, with `"deletestep"` and three steps: the session looks
  for step `step_order + 1` only, and the lead is complete with steps left.
- `InvalidSuspends`: the check at the start of a session raises with the text
  "Account will be suspended", but outside the handler that suspends it.
- `RunningJobsAreLive`, with one fault: a job committed as running is ended by
  nobody. `DelayHonoured`, with `"restart"` and `MaxResets = 1`: a restart makes
  every lead on its way due at once. `AcceptedIsMessaged`, under `FairSpec` with
  one edit of a lead to `accepted`: a later step overwrites the status, and the
  step that asks for it waits for ever.
- `ReportedIsDone`, with `LostClicks = TRUE`: nobody checks whom an open composer
  addresses. A message that was delivered but not seen is reported as failed and
  sent again by the retry; "visit and like" in one call drops the dead-session
  flag (`visit_profile.py:365-371`); "pending" counts as connected
  (`connect.py:388-411`).

*WhatsApp.*

- `NoGapBeforeCheckpoint`, with `WordlessRuns = TRUE`: a window that shows nothing
  readable ends the scroll early. The fallback wheel of 900 pixels may exceed a
  window. A newest message without an id resets the checkpoint
  (`whatsapp_tasks.py:586`).
- `CheckpointCovers`, with `ResetsRace = TRUE`: a scan that loaded the checkpoint
  before the reset (`whatsapp_scanner.py:1578`) writes a new one after it.
- `ViewOwnsProfile` and `StealsOnlyStale`: Connect takes the lock of a living scan
  (`browser_view.py:394`). With `LongBrowsing = TRUE`, `LiveOwnsProfile`: a live
  chat outlives its lock.
- `QrResolved`, under `FairDeviceSpec` with `"connect"`, `"stopView"` and three
  events: a Connect that comes while the watcher of the one before it ends starts
  none of its own (`whatsapp_scanner.py:201-207`, 598), and when the view is then
  stopped the row waits for its QR code for ever.
- `StopsOwnBrowserOnly`: a stop that waited closes the browser that another user
  started meanwhile; `linkedin_live_browser.py:265-267` says it cannot.
- `EventsNameTheirChat`: a stream reads the chat that is shown and names the one
  that was active. `TextStaysInChat`, with `Impatient` or `PageFaults`: a text is
  typed into the chat on the screen.

*Accounts, feeds, queues, users.*

- `ActiveHasSignedIn`, with `EditsRace = TRUE` and `MaxLoginOps = 5`: see the
  proof above.
- `session_manager.py:105-121` says that the periodic clean-up closes an expired
  session; `get_session` drops the entry by which it would find it (`SubmitLate`).
- `RowsMatchCriteria`, with `CriteriaRace = TRUE`: a scan stores what matched the
  criteria before an edit (`feed_scroll_tasks.py:341-344` against
  `api/v1/feed_scroll.py:763`). `SlotsBounded`, with `SlowFeedScans = TRUE`: the
  slots' key expires between a refused INCR and its DECR. Without it
  `SlotsBoundedCorrect` proves it.
- `OwnTasksOnly`: a user's clean-up takes the tasks and leases of other owners for
  stale; `system_queues.py:479-481` says it must not. A purge empties every
  queue whatever it names, `clear-locks` removes the locks of living holders, and
  `admin.py:1069-1074` deletes every lease, because it compares `str(bytes)`.
- `EverythingErased`: "Your account and all associated data have been deleted",
  but the browser profiles with their signed-in sessions stay. Files go before
  the commit, though `user_data.py:271-272` says after. A reset or deletion link
  requested during an erasure has no foreign key and fits the next user who
  registers the address; a session names the address and serves that user too.

## Not modelled, and why

- **Text and pages**: the words and weights behind a score, the assistant, the
  scrapers, OCR and PDF generation compute on text and share no state.
  Selectors, mouse and keyboard pacing, and starting a browser are I/O; what
  they may end in is the nondeterminism of the models.
- **Live event hub** (`core/live_hub.py`): bounded queues that drop their oldest
  event, read by nothing but a browser tab, which asks for the page again.
- **API rate limiter** (`services/rate_limiter.py`): one counting upsert per
  request, which lets everything pass when the database fails.
- **Roles and permissions**, hashing and encryption: one statement each. The
  last-administrator guard (`admin.py:1155-1200`) checks and then acts.
- **Administration**: reports, bulk deletions and the removal of WhatsApp sessions
  delete in one transaction what the modelled requests delete one by one.
- **Frontend, schema, start-up**: the frontend sends requests the models allow at
  any time; of the rest, what matters (one API process, worker concurrency, late
  acknowledgement) is in the models' structure. The broker's visibility time-out
  is modelled for the publisher only.
- **Left out of modelled parts**: the retired per-step campaign tasks, which
  nothing queues; the daily limit, whose check always admits; CSV import, editing
  of campaigns and steps, deletion of a single lead; the upload endpoint and
  retention purges; two outcome rows of one platform inserted at the same time,
  because lookup and insert are one step; reports and exports; images of
  WhatsApp messages; clicks and keys forwarded to a browser view; Gmail, a mail
  client with no state but tokens.

## What is left to do

In order: an abstract specification of the scanner (a message is stored, then
forwarded once, then covered by the checkpoint) that `WhatsAppScan` implements,
which the invariants of its theorems have prepared; the delays of a lead after a
restart, which `DelayCorrect` leaves out; the queue pages with two jobs in a run of their own (two jobs and
three page calls were checked once) and a theorem about them; a scanner whose
owner has two devices, to see the duplicate that `OneDevice` excludes; the hub's
order, if a reader comes to depend on it.
