--------------------------- MODULE SocialPublisher ---------------------------
(***************************************************************************)
(* The life of a scheduled social post: the REST handlers that create,     *)
(* edit, cancel, re-queue and delete it, the Beat dispatcher that leases   *)
(* and queues it, the at-least-once Celery queue, and the worker that      *)
(* claims it, uploads it to every platform and records the outcome.        *)
(*                                                                         *)
(* Sources: worker/tasks/social_scheduler_tasks.py,                        *)
(* api/v1/social_scheduler.py, worker/dispatch_lease.py,                   *)
(* models/social_scheduler.py, worker/celery_app.py.                       *)
(*                                                                         *)
(* A REST handler loads the row, checks it, and writes it back in a later  *)
(* step (Load, then Commit...), because nothing locks the row in between.  *)
(* An operator named Mut... is a deliberately wrong variant of the         *)
(* definition after it; the mutation runs put it in that definition's      *)
(* place and nothing else uses it.                                         *)
(***************************************************************************)
EXTENDS Naturals, FiniteSets

CONSTANTS
    Posts,        \* row ids of social_posts (uuids, never reused)
    NoPost,       \* the post of "no message"
    Platforms,    \* the publishing targets
    YouTube,      \* the one platform with native scheduling
    Uploads,      \* uploaded files
    Workers,      \* Celery worker processes, one task at a time each
    Tokens,       \* dispatch-lease tokens (uuid4)
    NoToken,      \* a message sent by the API carries no lease token
    Requests,     \* REST requests that may be in flight at the same time
    ApiOps,       \* subset of AllOps: the edits users make in this instance
    Kinds,        \* subset of AllKinds: how posts are created
    StaleTicks,   \* STALE_POSTING_SECONDS = LEASE_SECONDS, in clock ticks
    SlowUploads,  \* may one upload run outlive STALE_POSTING_SECONDS?
    MaxDelay,     \* bound: how far ahead a post is scheduled, in ticks
    MaxFaults,    \* bound: worker deaths and failed database transactions
    MaxHandouts   \* bound: times one row is made pending

AllOps   == {"cancel", "retry", "reschedule", "retarget", "delete"}
AllKinds == {"now", "scheduled", "native"}

ASSUME ConstantsAssumption ==
    /\ NoPost \notin Posts
    /\ NoToken \notin Tokens
    /\ YouTube \in Platforms
    /\ Uploads # {}
    /\ ApiOps \subseteq AllOps
    /\ Kinds \subseteq AllKinds
    /\ StaleTicks \in Nat \ {0}
    /\ SlowUploads \in BOOLEAN
    /\ MaxDelay \in Nat
    /\ MaxFaults \in Nat
    /\ MaxHandouts \in Nat \ {0}

VARIABLES
    posts,     \* social_posts: one row per id
    results,   \* social_post_results: status per (post, platform), or "none"
    file,      \* does the uploaded file still exist on disk?
    lease,     \* Redis: linkeasy:scheduler:social:<id>
    queue,     \* Celery messages waiting for a worker
    worker,    \* what each worker process is doing
    api,       \* REST requests between loading a row and writing it
    faults,    \* worker deaths and failed transactions so far
    handouts,  \* history: how often the row was made pending
    claims,    \* history: the <<post, handout>> pairs a worker claimed
    uploaded   \* history: what the platforms really published

dbVars    == <<posts, results>>
ghostVars == <<handouts, claims, uploaded>>
vars      == <<posts, results, file, lease, queue, worker, api, faults,
               handouts, claims, uploaded>>

-----------------------------------------------------------------------------
(* Types *)

Status    == {"absent", "pending", "posting", "posted", "failed",
              "cancelled", "deleted"}
RowStatus == {"none", "pending", "posted", "failed"}

Row     == [status: Status, delay: Nat, platforms: SUBSET Platforms,
            native: BOOLEAN, upload: Uploads, age: Nat]
Message == [post: Posts, token: Tokens \cup {NoToken}]
NoMsg   == [post |-> NoPost, token |-> NoToken]
Lease   == [owner: Tokens \cup {NoToken}, ttl: Nat]
Free    == [owner |-> NoToken, ttl |-> 0]
WorkerState ==
    [pc: {"idle", "dispatching", "uploading", "cleaning", "releasing"},
     msg: Message \cup {NoMsg}, batch: SUBSET Posts,
     todo: SUBSET Platforms, ok: SUBSET Platforms, bad: SUBSET Platforms,
     handout: Nat]
Idle  == [pc |-> "idle", msg |-> NoMsg, batch |-> {}, todo |-> {},
          ok |-> {}, bad |-> {}, handout |-> 0]
Request == [op: AllOps, post: Posts, rows: SUBSET Platforms]
NoReq   == [op |-> "none", post |-> NoPost, rows |-> {}]
Copy    == [post: Posts, platform: Platforms, handout: Nat]

TypeOK ==
    /\ posts \in [Posts -> Row]
    /\ results \in [Posts -> [Platforms -> RowStatus]]
    /\ file \in [Uploads -> BOOLEAN]
    /\ lease \in [Posts -> Lease]
    /\ queue \subseteq Message
    /\ worker \in [Workers -> WorkerState]
    /\ api \in [Requests -> Request \cup {NoReq}]
    /\ faults \in Nat
    /\ handouts \in [Posts -> Nat]
    /\ claims \subseteq (Posts \X Nat)
    /\ uploaded \subseteq Copy

EmptyRow == [status |-> "absent", delay |-> 0, platforms |-> {},
             native |-> FALSE, upload |-> CHOOSE u \in Uploads : TRUE,
             age |-> 0]
NoRows   == [pl \in Platforms |-> "none"]

Init ==
    /\ posts = [p \in Posts |-> EmptyRow]
    /\ results = [p \in Posts |-> NoRows]
    /\ file = [u \in Uploads |-> TRUE]
    /\ lease = [p \in Posts |-> Free]
    /\ queue = {}
    /\ worker = [w \in Workers |-> Idle]
    /\ api = [r \in Requests |-> NoReq]
    /\ faults = 0
    /\ handouts = [p \in Posts |-> 0]
    /\ claims = {}
    /\ uploaded = {}

-----------------------------------------------------------------------------
(* Creating a post.  publish_now and YouTube-native posts are queued by the *)
(* API itself, after the commit and without a lease; sending may fail, and  *)
(* the pending row is then left to Beat.                                    *)

CreatePost(p, kind, d, S, u) ==
    /\ posts[p].status = "absent"
    /\ file[u]
    /\ kind = "now" => d = 0
    /\ kind = "native" => S = {YouTube}
    /\ posts' = [posts EXCEPT ![p] =
                   [status |-> "pending", delay |-> d, platforms |-> S,
                    native |-> kind = "native", upload |-> u, age |-> 0]]
    /\ handouts' = [handouts EXCEPT ![p] = 1]
    /\ \/ /\ kind # "scheduled"
          /\ queue' = queue \cup {[post |-> p, token |-> NoToken]}
       \/ UNCHANGED queue
    /\ UNCHANGED <<results, file, lease, worker, api, faults, claims, uploaded>>

-----------------------------------------------------------------------------
(* PATCH and DELETE: load and check the row, then write it back.           *)

MutMayLoad(op, st) == st \in {"pending", "posted", "failed", "cancelled"}
MayLoad(op, st) ==
    CASE op = "cancel" -> st = "pending"
      [] op = "retry"  -> st \in {"failed", "cancelled"}
      [] op = "delete" -> st \in {"pending", "posted", "failed", "cancelled"}
      [] OTHER         -> st \in {"pending", "failed", "cancelled"}

Load(r, op, p) ==
    /\ api[r] = NoReq
    /\ op \in ApiOps
    /\ MayLoad(op, posts[p].status)
    /\ api' = [api EXCEPT ![r] =
                 [op |-> op, post |-> p,
                  rows |-> {pl \in Platforms : results[p][pl] # "none"}]]
    /\ UNCHANGED <<dbVars, file, lease, queue, worker, faults, ghostVars>>

\* The request writes its row: it still exists, and the request is over.
Writes(r, op) ==
    /\ api[r].op = op
    /\ posts[api[r].post].status # "deleted"
    /\ api' = [api EXCEPT ![r] = NoReq]
    /\ UNCHANGED <<lease, queue, worker, faults, claims, uploaded>>

CommitCancel(r) ==
    /\ Writes(r, "cancel")
    /\ posts' = [posts EXCEPT ![api[r].post] =
                    [@ EXCEPT !.status = "cancelled", !.age = 0]]
    /\ UNCHANGED <<results, file, handouts>>

\* Re-queueing drops the outcome rows the request loaded, sets the row
\* pending again and takes the schedule the client sent with it.
CommitRetry(r, d) ==
    LET p == api[r].post IN
    /\ Writes(r, "retry")
    /\ posts[p].status # "pending" => handouts[p] < MaxHandouts
    /\ posts' = [posts EXCEPT ![p] =
                    [@ EXCEPT !.status = "pending", !.delay = d, !.age = 0]]
    /\ results' = [results EXCEPT ![p] =
                     [pl \in Platforms |->
                        IF pl \in api[r].rows THEN "none" ELSE results[p][pl]]]
    /\ handouts' = [handouts EXCEPT ![p] =
                      IF posts[p].status = "pending" THEN @ ELSE @ + 1]
    /\ UNCHANGED file

CommitReschedule(r, d) ==
    /\ Writes(r, "reschedule")
    /\ posts' = [posts EXCEPT ![api[r].post] =
                    [@ EXCEPT !.delay = d, !.age = 0]]
    /\ UNCHANGED <<results, file, handouts>>

CommitRetarget(r, S) ==
    /\ Writes(r, "retarget")
    /\ posts' = [posts EXCEPT ![api[r].post] =
                    [@ EXCEPT !.platforms = S, !.age = 0]]
    /\ UNCHANGED <<results, file, handouts>>

\* The row goes, its outcome rows cascade, and the file goes with it unless
\* another row still refers to it.
SharesUpload(p) ==
    \E q \in Posts \ {p} : /\ posts[q].upload = posts[p].upload
                           /\ posts[q].status \notin {"absent", "deleted"}

CommitDelete(r) ==
    LET p == api[r].post IN
    /\ Writes(r, "delete")
    /\ posts' = [posts EXCEPT ![p] =
                    [@ EXCEPT !.status = "deleted", !.delay = 0, !.age = 0]]
    /\ results' = [results EXCEPT ![p] = NoRows]
    /\ file' = IF SharesUpload(p) THEN file
               ELSE [file EXCEPT ![posts[p].upload] = FALSE]
    /\ UNCHANGED handouts

\* The request ends without writing: its row is gone, or the API went down.
Abandon(r) ==
    /\ api[r] # NoReq
    /\ api' = [api EXCEPT ![r] = NoReq]
    /\ UNCHANGED <<dbVars, file, lease, queue, worker, faults, ghostVars>>

-----------------------------------------------------------------------------
(* Beat's dispatcher, run by a worker process.  The due posts are selected  *)
(* first; rows stuck in "posting" are handed back in the same transaction,  *)
(* so a handed-back row waits for the next tick.                            *)

MutDuePosts == {p \in Posts : posts[p].status = "pending"}
DuePosts    == {p \in Posts : posts[p].status = "pending" /\ posts[p].delay = 0}

MutStale(p)      == posts[p].status = "posting"
MutNeverStale(p) == FALSE
Stale(p)    == posts[p].status = "posting" /\ posts[p].age > StaleTicks

StartDispatch(w) ==
    /\ worker[w] = Idle
    /\ \A p \in Posts : Stale(p) => handouts[p] < MaxHandouts
    /\ worker' = [worker EXCEPT ![w] =
                    IF DuePosts = {} THEN Idle
                    ELSE [Idle EXCEPT !.pc = "dispatching", !.batch = DuePosts]]
    /\ posts' = [p \in Posts |->
                   IF Stale(p)
                   THEN [posts[p] EXCEPT !.status = "pending", !.age = 0]
                   ELSE posts[p]]
    /\ handouts' = [p \in Posts |-> IF Stale(p) THEN handouts[p] + 1
                                               ELSE handouts[p]]
    /\ UNCHANGED <<results, file, lease, queue, api, faults, claims, uploaded>>

\* uuid4 tokens are never reused; one that is no longer anywhere stands for
\* a new one.
FreshTokens == Tokens \ ({lease[p].owner : p \in Posts}
                          \cup {m.token : m \in queue}
                          \cup {worker[w].msg.token : w \in Workers})

DropFromBatch(w, p) ==
    worker' = [worker EXCEPT ![w] =
                 IF worker[w].batch = {p} THEN Idle
                 ELSE [worker[w] EXCEPT !.batch = @ \ {p}]]

\* SET NX: another delivery of the post is already under way.
DispatchHeld(w, p) ==
    /\ p \in worker[w].batch
    /\ lease[p] # Free
    /\ DropFromBatch(w, p)
    /\ UNCHANGED <<dbVars, file, lease, queue, api, faults, ghostVars>>

DispatchPost(w, p, t) ==
    /\ p \in worker[w].batch
    /\ lease[p] = Free
    /\ t \in FreshTokens
    /\ lease' = [lease EXCEPT ![p] = [owner |-> t, ttl |-> StaleTicks]]
    /\ queue' = queue \cup {[post |-> p, token |-> t]}
    /\ DropFromBatch(w, p)
    /\ UNCHANGED <<dbVars, file, api, faults, ghostVars>>

\* send_task raises: the lease just taken is released, the batch is lost.
DispatchFails(w) ==
    /\ \E p \in worker[w].batch : lease[p] = Free
    /\ worker' = [worker EXCEPT ![w] = Idle]
    /\ UNCHANGED <<dbVars, file, lease, queue, api, faults, ghostVars>>

-----------------------------------------------------------------------------
(* The publish task.                                                       *)

Release(p, t) ==
    lease' = IF t # NoToken /\ lease[p].owner = t
             THEN [lease EXCEPT ![p] = Free] ELSE lease

\* UPDATE ... SET status = 'posting' WHERE id = ... AND status = 'pending'
MutClaimable(p) == posts[p].status \in {"pending", "posting"}
Claimable(p)    == posts[p].status = "pending"

StartPublish(w, m) ==
    LET p == m.post IN
    /\ worker[w] = Idle
    /\ m \in queue
    /\ Claimable(p)
    /\ queue' = queue \ {m}
    /\ posts' = [posts EXCEPT ![p] =
                    [@ EXCEPT !.status = "posting", !.age = 0]]
    /\ results' = [results EXCEPT ![p] =
                     [pl \in Platforms |-> IF pl \in posts[p].platforms
                                           THEN "pending" ELSE results[p][pl]]]
    /\ worker' = [worker EXCEPT ![w] =
                    [Idle EXCEPT !.pc = "uploading", !.msg = m,
                                 !.todo = posts[p].platforms,
                                 !.handout = handouts[p]]]
    /\ claims' = claims \cup {<<p, handouts[p]>>}
    /\ UNCHANGED <<file, lease, api, faults, handouts, uploaded>>

\* The row is not pending: nothing is published, the lease is given back.
SkipPublish(w, m) ==
    /\ worker[w] = Idle
    /\ m \in queue
    /\ ~Claimable(m.post)
    /\ queue' = queue \ {m}
    /\ Release(m.post, m.token)
    /\ UNCHANGED <<dbVars, file, worker, api, faults, ghostVars>>

\* One platform's upload.  It may publish and report success, publish and
\* still report failure (a lost answer, one of several YouTube accounts
\* failing), or fail; without its file it can only fail.
Upload(w, pl, landed, good) ==
    LET p == worker[w].msg.post IN
    /\ worker[w].pc = "uploading"
    /\ pl \in worker[w].todo
    /\ good => landed
    /\ landed => file[posts[p].upload]
    /\ worker' = [worker EXCEPT ![w] =
        [worker[w] EXCEPT
           !.todo = worker[w].todo \ {pl},
           !.ok   = worker[w].ok \cup (IF good THEN {pl} ELSE {}),
           !.bad  = worker[w].bad \cup (IF good THEN {} ELSE {pl})]]
    /\ uploaded' = IF landed
                   THEN uploaded \cup {[post |-> p, platform |-> pl,
                                        handout |-> worker[w].handout]}
                   ELSE uploaded
    /\ UNCHANGED <<dbVars, file, lease, queue, api, faults, handouts, claims>>

MutAllSucceeded(w) == worker[w].ok # {}
AllSucceeded(w)    == worker[w].bad = {} /\ worker[w].ok # {}

MutOutcomeRow(w, p, pl) ==
    IF pl \in worker[w].ok \cup worker[w].bad THEN "posted" ELSE results[p][pl]
OutcomeRow(w, p, pl) ==
    IF pl \in worker[w].ok THEN "posted"
    ELSE IF pl \in worker[w].bad THEN "failed" ELSE results[p][pl]

MutCleansUp(w) == TRUE
CleansUp(w)    == AllSucceeded(w)

\* The outcome rows are written whoever owns the row by now; the status only
\* if it is still "posting".  A success is followed by the file clean-up
\* even when the status was not written.
Record(w) ==
    LET p == worker[w].msg.post
        final == IF AllSucceeded(w) THEN "posted" ELSE "failed" IN
    /\ worker[w].pc = "uploading"
    /\ worker[w].todo = {}
    /\ posts[p].status # "deleted"
    /\ results' = [results EXCEPT ![p] =
                     [pl \in Platforms |-> OutcomeRow(w, p, pl)]]
    /\ posts' = IF posts[p].status = "posting"
                THEN [posts EXCEPT ![p] =
                        [@ EXCEPT !.status = final, !.age = 0]]
                ELSE posts
    /\ worker' = [worker EXCEPT ![w].pc =
                    IF CleansUp(w) THEN "cleaning" ELSE "releasing"]
    /\ UNCHANGED <<file, lease, queue, api, faults, ghostVars>>

\* The transaction fails (the row was deleted, the database is away): the
\* task swallows the error and the row keeps its status.
RecordFails(w) ==
    /\ worker[w].pc = "uploading"
    /\ worker[w].todo = {}
    /\ \/ /\ posts[worker[w].msg.post].status = "deleted"
          /\ UNCHANGED faults
       \/ /\ faults < MaxFaults
          /\ faults' = faults + 1
    /\ worker' = [worker EXCEPT ![w].pc = "releasing"]
    /\ UNCHANGED <<dbVars, file, lease, queue, api, ghostVars>>

\* The worker removes the file of a published post whoever else uses it.
CleanUp(w) ==
    /\ worker[w].pc = "cleaning"
    /\ file' = [file EXCEPT ![posts[worker[w].msg.post].upload] = FALSE]
    /\ worker' = [worker EXCEPT ![w].pc = "releasing"]
    /\ UNCHANGED <<dbVars, lease, queue, api, faults, ghostVars>>

Finish(w) ==
    /\ worker[w].pc = "releasing"
    /\ Release(worker[w].msg.post, worker[w].msg.token)
    /\ worker' = [worker EXCEPT ![w] = Idle]
    /\ UNCHANGED <<dbVars, file, queue, api, faults, ghostVars>>

-----------------------------------------------------------------------------
(* Failures and time.                                                      *)

\* acks_late and reject_on_worker_lost: the message of a worker that dies
\* goes back to the queue.
MutUnacked(w) == {worker[w].msg}
Unacked(w)    == {worker[w].msg} \ {NoMsg}

Crash(w) ==
    /\ worker[w] # Idle
    /\ faults < MaxFaults
    /\ faults' = faults + 1
    /\ worker' = [worker EXCEPT ![w] = Idle]
    /\ queue' = queue \cup Unacked(w)
    /\ UNCHANGED <<dbVars, file, lease, api, ghostVars>>

\* The dispatcher dies between taking a lease and sending the message.
CrashHoldingLease(w, p, t) ==
    /\ p \in worker[w].batch
    /\ lease[p] = Free
    /\ t \in FreshTokens
    /\ faults < MaxFaults
    /\ faults' = faults + 1
    /\ lease' = [lease EXCEPT ![p] = [owner |-> t, ttl |-> StaleTicks]]
    /\ worker' = [worker EXCEPT ![w] = Idle]
    /\ UNCHANGED <<dbVars, file, queue, api, ghostVars>>

\* The broker's visibility timeout passes while the task is still running.
Redeliver(w) ==
    /\ worker[w].msg \notin queue \cup {NoMsg}
    /\ queue' = queue \cup {worker[w].msg}
    /\ UNCHANGED <<dbVars, file, lease, worker, api, faults, ghostVars>>

\* Unless SlowUploads, a run is over before its row counts as stale.
TimeMayPass ==
    SlowUploads \/ \A w \in Workers :
        worker[w].pc = "uploading" => posts[worker[w].msg.post].age < StaleTicks

Tick ==
    /\ TimeMayPass
    /\ posts' = [p \in Posts |->
         [posts[p] EXCEPT
            !.delay = IF @ > 0 THEN @ - 1 ELSE 0,
            !.age = IF posts[p].status = "posting" /\ @ <= StaleTicks
                    THEN @ + 1 ELSE @]]
    /\ lease' = [p \in Posts |->
         IF lease[p].ttl > 1 THEN [lease[p] EXCEPT !.ttl = @ - 1] ELSE Free]
    /\ UNCHANGED <<results, file, queue, worker, api, faults, ghostVars>>

-----------------------------------------------------------------------------
UserStep ==
    \/ \E p \in Posts, kind \in Kinds, d \in 0..MaxDelay,
          S \in (SUBSET Platforms) \ {{}}, u \in Uploads :
             CreatePost(p, kind, d, S, u)
    \/ \E r \in Requests :
          \/ \E op \in AllOps, p \in Posts : Load(r, op, p)
          \/ CommitCancel(r)
          \/ \E d \in 0..MaxDelay : CommitRetry(r, d) \/ CommitReschedule(r, d)
          \/ \E S \in (SUBSET Platforms) \ {{}} : CommitRetarget(r, S)
          \/ CommitDelete(r)
          \/ Abandon(r)

DispatchStep(w) ==
    \/ StartDispatch(w)
    \/ DispatchFails(w)
    \/ \E p \in Posts :
          DispatchHeld(w, p) \/ \E t \in Tokens : DispatchPost(w, p, t)

PublishStep(w) ==
    \/ \E m \in queue : StartPublish(w, m) \/ SkipPublish(w, m)
    \/ \E pl \in Platforms, landed, good \in BOOLEAN :
          Upload(w, pl, landed, good)
    \/ Record(w) \/ RecordFails(w) \/ CleanUp(w) \/ Finish(w)

FaultStep ==
    \E w \in Workers :
       \/ Crash(w)
       \/ Redeliver(w)
       \/ \E p \in Posts, t \in Tokens : CrashHoldingLease(w, p, t)

Next ==
    \/ UserStep
    \/ \E w \in Workers : DispatchStep(w) \/ PublishStep(w)
    \/ FaultStep
    \/ Tick

Spec == Init /\ [][Next]_vars

(***************************************************************************)
(* Fairness.  A step a worker process has begun continues (a crash ends it *)
(* otherwise).  The broker list is first-in first-out and Beat adds a tick *)
(* every minute, so an idle worker comes to every message and every tick:  *)
(* strong fairness, because workers are busy in between.  Users owe        *)
(* nothing, and the queue may fail only finitely often in a row.           *)
(***************************************************************************)
Fairness ==
    /\ WF_vars(Tick)
    /\ SF_vars(\E w \in Workers : StartDispatch(w) /\ DuePosts # {})
    /\ SF_vars(\E w \in Workers : StartDispatch(w) /\ \E p \in Posts : Stale(p))
    /\ \A w \in Workers :
         /\ WF_vars(PublishStep(w) /\ worker[w] # Idle)
         /\ WF_vars(DispatchStep(w) /\ worker[w] # Idle)
         /\ SF_vars(\E p \in Posts, t \in Tokens : DispatchPost(w, p, t))
    /\ \A p \in Posts :
         SF_vars(\E w \in Workers, m \in queue :
                   m.post = p /\ (StartPublish(w, m) \/ SkipPublish(w, m)))

FairSpec == Spec /\ Fairness

-----------------------------------------------------------------------------
(* The abstract publisher: its open attempts are those the workers hold.    *)

Running(w) == worker[w].pc = "uploading"

OpenCopies ==
    UNION {{[post |-> worker[w].msg.post, platform |-> pl,
             handout |-> worker[w].handout] : pl \in worker[w].todo} :
           w \in {v \in Workers : Running(v)}}

Abstract == INSTANCE PublishOnce WITH open <- OpenCopies

-----------------------------------------------------------------------------
(* Properties *)

\* The publisher implements PublishOnce: every claim takes a handout nobody
\* claimed before, and every upload is an attempt of its claim not made yet.
PublishesOncePerHandout == Abstract!Spec

\* No two workers ever publish the same handout of a post: whatever happens
\* to leases, messages and concurrent edits, the conditional UPDATE of
\* publish_post lets one run through each time the row is made pending.
OneRunPerHandout ==
    \A v, w \in Workers :
        /\ v # w /\ Running(v) /\ Running(w)
        /\ worker[v].msg.post = worker[w].msg.post
        => worker[v].handout # worker[w].handout

\* A platform a run has still to publish to has no copy from this handout:
\* neither a crash, a redelivered message nor a second worker makes
\* publish_post upload twice without the row having been made pending again.
NoSecondCopyPerHandout ==
    \A w \in Workers : Running(w) =>
        \A pl \in worker[w].todo :
            [post |-> worker[w].msg.post, platform |-> pl,
             handout |-> worker[w].handout] \notin uploaded

\* A result row says "posted" only for a platform that really got the post,
\* through every overlap of runs, retries and edits.
ResultsAreHonest ==
    \A p \in Posts, pl \in Platforms :
        results[p][pl] = "posted" =>
            \E c \in uploaded : c.post = p /\ c.platform = pl

\* With prompt uploads and one request at a time a post has one run at most.
OneRunAtATime ==
    \A v, w \in Workers :
        Running(v) /\ Running(w) /\ worker[v].msg.post = worker[w].msg.post
            => v = w

\* models/social_scheduler.py: "posted" means every platform succeeded.
PostedMeansEveryPlatform ==
    \A p \in Posts : posts[p].status = "posted" =>
        \A pl \in posts[p].platforms : results[p][pl] = "posted"

\* A post that may still be published or retried still has its file.
RetryableKeepsFile ==
    \A p \in Posts :
        posts[p].status \in {"pending", "posting", "failed", "cancelled"}
            => file[posts[p].upload]

\* A published post is final: nothing can make it publish again.
PostedIsFinal ==
    [][\A p \in Posts : posts[p].status = "posted"
          => posts'[p].status \in {"posted", "deleted"}]_vars

\* Outside YouTube's native scheduling, a run starts only when the row's
\* scheduled_at has come.
NeverEarly ==
    [][\A w \in Workers :
          worker[w] = Idle /\ worker'[w].pc = "uploading" =>
              LET p == worker'[w].msg.post IN
              posts[p].native \/ posts[p].delay = 0]_vars

\* Only a scheduled post is cancelled (the 409 of update_post).
OnlyScheduledIsCancelled ==
    [][\A p \in Posts :
          posts'[p].status = "cancelled" /\ posts[p].status # "cancelled"
              => posts[p].status = "pending"]_vars

\* No platform ever gets a second copy of a post.
PublishedOnce ==
    \A c, d \in uploaded :
        c.post = d.post /\ c.platform = d.platform => c = d

\* A post whose time has come is not left waiting: it is published, fails,
\* is withdrawn, or is moved to a later time.
DueIsResolved ==
    \A p \in Posts :
        posts[p].status = "pending" /\ posts[p].delay = 0
            ~> \/ posts[p].status \notin {"pending", "posting"}
               \/ posts[p].delay > 0
==============================================================================
