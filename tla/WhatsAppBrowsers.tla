-------------------------- MODULE WhatsAppBrowsers --------------------------
(***************************************************************************)
(* The browsers that the API process opens on one WhatsApp device: the     *)
(* browser view that shows the QR code (services/browser_view.py), the     *)
(* live chat (services/whatsapp_live_browser.py), the group list, and the  *)
(* requests and the background watcher that drive them                     *)
(* (api/v1/whatsapp_scanner.py, whatsapp_live.py), together with the scans *)
(* of WhatsAppScan that share the device's profile and its lock.           *)
(*                                                                         *)
(* A request is a coroutine; it stands for the browser and the lock it     *)
(* takes.  Coroutines interleave where they await.                         *)
(***************************************************************************)
EXTENDS WhatsAppScan

CONSTANTS
    Device,             \* the one session the requests are about
    Requests, Watches, NoWatch,
    SharedHost,         \* API and workers are in one container
    LongBrowsing,       \* a browser may be open for more than 30 minutes
    BrowserOps, MaxEvents, MaxRestarts

\* A lock's token names the one that took it.
ASSUME DeviceAssumption ==
    /\ Device \in Profiles
    /\ Requests \cap (Workers \cup {NoHolder}) = {}

VARIABLES
    view, live,         \* BrowserViewManager, LiveBrowserManager
    req, watch,         \* requests and QR watchers under way
    active,             \* _active_watchers
    stored,             \* the row has a storage state
    chrome,             \* living Chromium processes of the API
    served, restarts,   \* requests taken, restarts of the API
    cleared             \* history: the last disconnect cleared the row

browserVars == <<view, live, req, watch, active, stored, chrome, served,
                 restarts, cleared>>
allVars == <<ScannerVars, browserVars>>

Ids == Requests \cup {NoHolder}
Manager ==
    [st: {"idle", "starting", "running", "error"},
     lock: Ids,                 \* _profile_lock
     page: SUBSET Requests,     \* _context and _page
     busy: Ids]                 \* who holds the manager's asyncio lock
Down == [st |-> "idle", lock |-> NoHolder, page |-> {}, busy |-> NoHolder]

RequestState ==
    [pc: {"idle", "stopLive", "stopView", "mark", "start", "claim", "steal",
          "launch", "ready", "await", "failed", "spawn", "saveCapture",
          "stopCaptured", "endLive", "endView", "reserve", "clear",
          "listLock", "listOpen", "listLook", "listClose", "liveLock",
          "liveOpen", "liveLogin"},
     seen: RowStatus]           \* the row as the request loaded it
NoRequest == [pc |-> "idle", seen |-> "disconnected"]

WatchState == [pc: {"idle", "wait", "capture", "save", "stop"},
               page: SUBSET Requests,
               result: {"none", "in", "state", "timeout", "2fa", "aborted"}]
NoWatching == [pc |-> "idle", page |-> {}, result |-> "none"]

BrowserTypeOK ==
    /\ SessionTypeOK
    /\ view \in Manager /\ live \in Manager
    /\ req \in [Requests -> RequestState]
    /\ watch \in [Watches -> WatchState]
    /\ active \in Watches \cup {NoWatch}
    /\ stored \in BOOLEAN /\ cleared \in BOOLEAN
    /\ chrome \subseteq Requests
    /\ served \in Nat /\ restarts \in Nat

BrowserInit ==
    /\ view = Down /\ live = Down
    /\ req = [r \in Requests |-> NoRequest]
    /\ watch = [v \in Watches |-> NoWatching]
    /\ active = NoWatch
    /\ stored = (row[Device] = "connected") /\ cleared = FALSE
    /\ chrome = {}
    /\ served = 0 /\ restarts = 0

-----------------------------------------------------------------------------
(* Frames and small steps.                                                 *)

Frame     == UNCHANGED <<scanVars, served, restarts>>
KeepRow   == UNCHANGED <<row, stored, cleared>>
KeepView  == UNCHANGED view
KeepLive  == UNCHANGED live
KeepWatch == UNCHANGED <<watch, active>>
KeepLock  == UNCHANGED profileLock
KeepDisk  == UNCHANGED <<profile, chrome>>

At(r, pc)    == req[r].pc = pc
To(r, pc)    == req' = [req EXCEPT ![r].pc = pc]
Respond(r)   == req' = [req EXCEPT ![r] = NoRequest]
Mark(st)     == SetRow(Device, st)
Release(h)   == ReleaseLock(Device, h)
Acquire(r)   == AcquireLock(Device, r)
LockTaken    == ~LockFree(Device)

\* Chromium's own SingletonLock works within one host only.
ScanAlive    == \E w \in Workers : Scanning(w)
MayLaunch    == chrome = {} /\ (SharedHost => ~ScanAlive)

\* _shutdown_locked and _shutdown_raw.
MutCloseView(st, busy) ==
    /\ view' = [Down EXCEPT !.st = st, !.busy = busy]
    /\ UNCHANGED chrome
    /\ Release(view.lock)
CloseView(st, busy) ==
    /\ view' = [Down EXCEPT !.st = st, !.busy = busy]
    /\ chrome' = chrome \ view.page
    /\ Release(view.lock)
MutCloseLive(st) ==
    /\ live' = [Down EXCEPT !.st = st]
    /\ chrome' = chrome \ live.page
    /\ UNCHANGED profileLock
CloseLive(st) ==
    /\ live' = [Down EXCEPT !.st = st]
    /\ chrome' = chrome \ live.page
    /\ Release(live.lock)

\* stop() of either manager waits for the asyncio lock.
StopView == view.busy = NoHolder /\ CloseView("idle", NoHolder)
StopLive == live.busy = NoHolder /\ CloseLive("idle")

\* One bound for all that comes from outside: requests, restarts and scans.
MoreEvents == served + restarts + ops < MaxEvents

\* A new request, which only loads the row.
NewRequest(r, op, pc) ==
    /\ op \in BrowserOps /\ At(r, "idle") /\ MoreEvents
    /\ r \notin chrome /\ view.lock # r /\ live.lock # r
    /\ profileLock[Device] # r
    /\ served' = served + 1
    /\ req' = [req EXCEPT ![r] = [pc |-> pc, seen |-> row[Device]]]
    /\ UNCHANGED <<scanVars, restarts>> /\ KeepRow /\ KeepView /\ KeepLive
    /\ KeepWatch /\ KeepLock /\ KeepDisk

-----------------------------------------------------------------------------
(* POST /connect.                                                          *)

Connect(r) == NewRequest(r, "connect", "stopLive")

\* A live chat that is not idle is stopped first.
ConnectStopsLive(r) ==
    /\ At(r, "stopLive") /\ To(r, "stopView")
    /\ \/ live.st = "idle" /\ KeepLive /\ KeepLock /\ UNCHANGED chrome
       \/ live.st # "idle" /\ StopLive
    /\ Frame /\ KeepRow /\ KeepView /\ KeepWatch /\ UNCHANGED profile

ConnectResetsView(r) ==
    /\ At(r, "stopView") /\ To(r, "mark")
    /\ \/ view.st # "error" /\ KeepView /\ KeepLock /\ UNCHANGED chrome
       \/ view.st = "error" /\ StopView
    /\ Frame /\ KeepRow /\ KeepLive /\ KeepWatch /\ UNCHANGED profile

ConnectInProgress(r) ==
    /\ At(r, "mark") /\ req[r].seen = "waiting_qr" /\ active # NoWatch
    /\ Respond(r)
    /\ Frame /\ KeepRow /\ KeepView /\ KeepLive /\ KeepWatch /\ KeepLock
    /\ KeepDisk

\* A row that waits for a QR code nobody watches is started again as it is.
ConnectMarks(r) ==
    /\ At(r, "mark") /\ To(r, "start")
    /\ \/ req[r].seen = "waiting_qr" /\ active = NoWatch /\ UNCHANGED row
       \/ req[r].seen # "waiting_qr" /\ Mark("waiting_qr")
    /\ Frame /\ UNCHANGED <<stored, cleared>> /\ KeepView /\ KeepLive
    /\ KeepWatch /\ KeepLock /\ KeepDisk

\* BrowserViewManager.start: a start under way is waited for, a running
\* browser is kept, anything else is closed before the profile is claimed.
StartView(r) ==
    /\ At(r, "start") /\ view.busy = NoHolder
    /\ \/ view.st = "starting" /\ To(r, "await")
          /\ KeepView /\ KeepLock /\ UNCHANGED chrome
       \/ view.st = "running" /\ view.page # {} /\ To(r, "spawn")
          /\ KeepView /\ KeepLock /\ UNCHANGED chrome
       \/ view.st \notin {"starting", "running"} /\ To(r, "claim")
          /\ CloseView(view.st, r)
    /\ Frame /\ KeepRow /\ KeepLive /\ KeepWatch /\ UNCHANGED profile

ClaimProfile(r) ==
    /\ req[r].pc \in {"claim", "steal"} /\ To(r, "launch")
    /\ Acquire(r)
    /\ view' = [view EXCEPT !.st = "starting", !.lock = r, !.busy = NoHolder]
    /\ Frame /\ KeepRow /\ KeepLive /\ KeepWatch /\ KeepDisk

MutLocalOwner == live.lock # NoHolder /\ live.st = "running"
LocalOwner == live.lock # NoHolder /\ live.st \in {"starting", "running"}

\* After five seconds a lock without an owner in this process counts as
\* stale: its key is deleted and the claim is tried once more.
StealLock(r) ==
    /\ At(r, "claim") /\ LockTaken /\ ~LocalOwner
    /\ To(r, "steal") /\ ForceReleaseLock(Device)
    /\ Frame /\ KeepRow /\ KeepView /\ KeepLive /\ KeepWatch /\ KeepDisk

ClaimFails(r) ==
    /\ \/ At(r, "claim") /\ LockTaken /\ LocalOwner
       \/ At(r, "steal") /\ LockTaken
    /\ To(r, "failed")
    /\ view' = [view EXCEPT !.st = "error", !.busy = NoHolder]
    /\ Frame /\ KeepRow /\ KeepLive /\ KeepWatch /\ KeepLock /\ KeepDisk

\* The launch is awaited without the asyncio lock: a stop may have released
\* the profile meanwhile, and the browser is registered all the same.
LaunchView(r) ==
    /\ At(r, "launch") /\ view.busy = NoHolder /\ MayLaunch
    /\ To(r, "ready")
    /\ view' = [view EXCEPT !.page = {r}, !.lock = r, !.st = "starting"]
    /\ chrome' = chrome \cup {r}
    /\ profile' = [profile EXCEPT ![Device] =
                     IF @ = "missing" THEN "blank" ELSE @]
    /\ Frame /\ KeepRow /\ KeepLive /\ KeepWatch /\ KeepLock

ViewReady(r) ==
    /\ At(r, "ready") /\ r \in chrome
    /\ To(r, "spawn")
    /\ view' = [view EXCEPT !.st = "running"]
    /\ Frame /\ KeepRow /\ KeepLive /\ KeepWatch /\ KeepLock /\ KeepDisk

\* The launch or the page fails: the manager closes what is registered, the
\* start closes its own browser and gives back its own lock.
StartFails(r) ==
    /\ req[r].pc \in {"launch", "ready"} /\ view.busy = NoHolder
    /\ To(r, "failed")
    /\ view' = [Down EXCEPT !.st = "error"]
    /\ chrome' = chrome \ (view.page \cup {r})
    /\ profileLock' = [profileLock EXCEPT ![Device] =
                         IF @ \in {view.lock, r} THEN NoHolder ELSE @]
    /\ Frame /\ KeepRow /\ KeepLive /\ KeepWatch /\ UNCHANGED profile

\* Another start of the view: ninety seconds for it to end, and a view that
\* was stopped meanwhile is no error.
AwaitView(r) ==
    /\ At(r, "await")
    /\ \/ view.st \in {"running", "idle"} /\ To(r, "spawn")
       \/ view.st \in {"starting", "error"} /\ To(r, "failed")
    /\ Frame /\ KeepRow /\ KeepView /\ KeepLive /\ KeepWatch /\ KeepLock
    /\ KeepDisk

ConnectFails(r) ==
    /\ At(r, "failed") /\ Respond(r)
    /\ Mark("error")
    /\ Frame /\ UNCHANGED <<stored, cleared>> /\ KeepView /\ KeepLive
    /\ KeepWatch /\ KeepLock /\ KeepDisk

\* One watcher per session; it looks at the page that is open now.
SpawnWatcher(r) ==
    /\ At(r, "spawn") /\ Respond(r)
    /\ IF active # NoWatch THEN KeepWatch
       ELSE \E v \in Watches :
              /\ watch[v] = NoWatching
              /\ active' = v
              /\ watch' = [watch EXCEPT ![v] =
                   IF view.page # {} /\ view.st \in {"starting", "running"}
                   THEN [NoWatching EXCEPT !.pc = "wait", !.page = view.page]
                   ELSE [NoWatching EXCEPT !.pc = "save",
                                           !.result = "aborted"]]
    /\ Frame /\ KeepRow /\ KeepView /\ KeepLive /\ KeepLock /\ KeepDisk

-----------------------------------------------------------------------------
(* The QR watcher, _watch_qr_scan.                                         *)

Watched(v) == view.page = watch[v].page /\ view.st \in {"starting", "running"}

WatchStep(v, pc, result) ==
    /\ watch' = [watch EXCEPT ![v].pc = pc, ![v].result = result]
    /\ Frame /\ UNCHANGED <<req, active>> /\ KeepLive

WatchLogin(v) ==
    /\ watch[v].pc = "wait" /\ watch[v].page \subseteq chrome
    /\ profile[Device] = "linked"
    /\ WatchStep(v, "capture", "in")
    /\ KeepRow /\ KeepView /\ KeepLock /\ KeepDisk

WatchGivesUp(v) ==
    /\ watch[v].pc = "wait"
    /\ \/ Watched(v) /\ \E result \in {"timeout", "2fa"} :
                            WatchStep(v, "save", result)
       \/ ~Watched(v) /\ WatchStep(v, "save", "aborted")
    /\ KeepRow /\ KeepView /\ KeepLock /\ KeepDisk

\* The storage state is read from whatever context the view has now.
WatchCaptures(v) ==
    /\ watch[v].pc = "capture"
    /\ \/ view.page # {} /\ WatchStep(v, "save", "state")
       \/ WatchStep(v, "save", "in")
    /\ KeepRow /\ KeepView /\ KeepLock /\ KeepDisk

MutWatchStatus(result) == IF result = "timeout" THEN "timeout"
                          ELSE "disconnected"
MutWatchStatusIn(result) == IF result \in {"state", "in"} THEN "connected"
                            ELSE "disconnected"
WatchStatus(result) == CASE result = "state" -> "connected"
                         [] result = "in"    -> "error"
                         [] OTHER            -> "disconnected"

\* A connection that was captured by hand is not undone by a watcher that saw
\* nothing.
WatchSaves(v) ==
    LET result == watch[v].result
        kept   == row[Device] = "connected" /\ stored /\ result # "state"
    IN /\ watch[v].pc = "save"
       /\ WatchStep(v, IF result \in {"2fa", "aborted"} THEN "idle"
                       ELSE "stop", result)
       /\ IF kept THEN UNCHANGED <<row, stored>>
          ELSE /\ Mark(WatchStatus(result))
               /\ stored' = (stored \/ result = "state")
       /\ UNCHANGED cleared /\ KeepView /\ KeepLock /\ KeepDisk

\* The flow is over: the browser is closed, whoever opened it.
WatchStopsView(v) ==
    /\ watch[v].pc = "stop"
    /\ StopView
    /\ WatchStep(v, "idle", watch[v].result)
    /\ KeepRow /\ UNCHANGED profile

\* The done callback forgets the session's watcher, even if it is another.
WatchDone(v) ==
    /\ watch[v].pc = "idle" /\ watch[v] # NoWatching
    /\ watch' = [watch EXCEPT ![v] = NoWatching]
    /\ active' = NoWatch
    /\ Frame /\ UNCHANGED req /\ KeepRow /\ KeepView /\ KeepLive /\ KeepLock
    /\ KeepDisk

-----------------------------------------------------------------------------
(* POST /session/capture.                                                  *)

Capture(r) ==
    /\ view.page # {} /\ view.st \in {"starting", "running"}
    /\ NewRequest(r, "capture", "saveCapture")

\* Nothing on the page to save, or its context is gone by now.
CaptureRefused(r) ==
    /\ At(r, "saveCapture") /\ Respond(r)
    /\ Frame /\ KeepRow /\ KeepView /\ KeepLive /\ KeepWatch /\ KeepLock
    /\ KeepDisk

\* With force the page is saved whether it is logged in or not.  Cancelling
\* ends the watcher at its next await.
CaptureSaves(r) ==
    /\ At(r, "saveCapture") /\ To(r, "stopCaptured")
    /\ view.page # {}
    /\ Mark("connected") /\ stored' = TRUE
    /\ active' = NoWatch
    /\ watch' = [v \in Watches |->
         IF v = active THEN [watch[v] EXCEPT !.pc = "idle"] ELSE watch[v]]
    /\ Frame /\ UNCHANGED cleared /\ KeepView /\ KeepLive /\ KeepLock
    /\ KeepDisk

CaptureStops(r) ==
    /\ At(r, "stopCaptured") /\ Respond(r)
    /\ StopView
    /\ Frame /\ KeepRow /\ KeepLive /\ KeepWatch /\ UNCHANGED profile

-----------------------------------------------------------------------------
(* DELETE /connection.                                                     *)

Disconnect(r) == NewRequest(r, "disconnect", "endLive")

DisconnectStopsLive(r) ==
    /\ At(r, "endLive") /\ To(r, "endView")
    /\ StopLive
    /\ Frame /\ KeepRow /\ KeepView /\ KeepWatch /\ UNCHANGED profile

DisconnectStopsView(r) ==
    /\ At(r, "endView") /\ To(r, "reserve")
    /\ StopView
    /\ Frame /\ KeepRow /\ KeepLive /\ KeepWatch /\ UNCHANGED profile

DisconnectReserves(r) ==
    /\ At(r, "reserve") /\ To(r, "clear")
    /\ Acquire(r)
    /\ Frame /\ KeepRow /\ KeepView /\ KeepLive /\ KeepWatch /\ KeepDisk

DisconnectBusy(r) ==
    /\ At(r, "reserve") /\ LockTaken /\ Respond(r)
    /\ Frame /\ KeepRow /\ KeepView /\ KeepLive /\ KeepWatch /\ KeepLock
    /\ KeepDisk

\* The row is cleared and committed; then cancelling the session's jobs reads
\* a name its module does not import, and the handler answers 500 without
\* reaching the removal of the profile directory.
DisconnectClears(r) ==
    /\ At(r, "clear") /\ Respond(r)
    /\ Mark("disconnected") /\ stored' = FALSE /\ cleared' = TRUE
    /\ Release(r)
    /\ Frame /\ KeepView /\ KeepLive /\ KeepWatch /\ KeepDisk

-----------------------------------------------------------------------------
(* GET /groups.                                                            *)

\* A running view is reused, without any lock.
ListGroups(r) ==
    /\ row[Device] = "connected"
    /\ NewRequest(r, "groups", IF view.st = "running" /\ view.page # {}
                               THEN "listLook" ELSE "listLock")

ListLocks(r) ==
    /\ At(r, "listLock") /\ To(r, "listOpen")
    /\ Acquire(r)
    /\ Frame /\ KeepRow /\ KeepView /\ KeepLive /\ KeepWatch /\ KeepDisk

ListBusy(r) ==
    /\ At(r, "listLock") /\ LockTaken /\ Respond(r)
    /\ Frame /\ KeepRow /\ KeepView /\ KeepLive /\ KeepWatch /\ KeepLock
    /\ KeepDisk

ListOpens(r) ==
    /\ At(r, "listOpen") /\ MayLaunch /\ To(r, "listLook")
    /\ chrome' = chrome \cup {r}
    /\ profile' = [profile EXCEPT ![Device] =
                     IF @ = "missing" THEN "blank" ELSE @]
    /\ Frame /\ KeepRow /\ KeepView /\ KeepLive /\ KeepWatch /\ KeepLock

\* Only a confirmed QR screen disconnects the session.
ListLooks(r) ==
    /\ At(r, "listLook") /\ To(r, "listClose")
    /\ \/ UNCHANGED row
       \/ profile[Device] # "linked" /\ Mark("disconnected")
    /\ Frame /\ UNCHANGED <<stored, cleared>> /\ KeepView /\ KeepLive
    /\ KeepWatch /\ KeepLock /\ KeepDisk

ListEnds(r) ==
    /\ req[r].pc \in {"listOpen", "listClose"} /\ Respond(r)
    /\ chrome' = chrome \ {r}
    /\ Release(r)
    /\ Frame /\ KeepRow /\ KeepView /\ KeepLive /\ KeepWatch
    /\ UNCHANGED profile

-----------------------------------------------------------------------------
(* The live chat: start and stop hold the lifecycle lock to their end.     *)

StartLive(r) ==
    /\ row[Device] = "connected"
    /\ NewRequest(r, "live", "liveLock")

LiveAlready(r) ==
    /\ At(r, "liveLock") /\ live.busy = NoHolder /\ Respond(r)
    /\ live.page # {} /\ live.st = "running"
    /\ Frame /\ KeepRow /\ KeepView /\ KeepLive /\ KeepWatch /\ KeepLock
    /\ KeepDisk

LiveLocks(r) ==
    /\ At(r, "liveLock") /\ live.busy = NoHolder /\ To(r, "liveOpen")
    /\ live.page = {}
    /\ Acquire(r)
    /\ live' = [live EXCEPT !.st = "starting", !.lock = r, !.busy = r]
    /\ Frame /\ KeepRow /\ KeepView /\ KeepWatch /\ KeepDisk

LiveBusy(r) ==
    /\ At(r, "liveLock") /\ live.busy = NoHolder /\ Respond(r)
    /\ live.page = {} /\ LockTaken
    /\ live' = [live EXCEPT !.st = "error"]
    /\ Frame /\ KeepRow /\ KeepView /\ KeepWatch /\ KeepLock /\ KeepDisk

LiveOpens(r) ==
    /\ At(r, "liveOpen") /\ MayLaunch /\ To(r, "liveLogin")
    /\ live' = [live EXCEPT !.page = {r}]
    /\ chrome' = chrome \cup {r}
    /\ profile' = [profile EXCEPT ![Device] =
                     IF @ = "missing" THEN "blank" ELSE @]
    /\ Frame /\ KeepRow /\ KeepView /\ KeepWatch /\ KeepLock

LiveRuns(r) ==
    /\ At(r, "liveLogin") /\ Respond(r)
    /\ profile[Device] = "linked"
    /\ live' = [live EXCEPT !.st = "running", !.busy = NoHolder]
    /\ Frame /\ KeepRow /\ KeepView /\ KeepWatch /\ KeepLock /\ KeepDisk

LiveFails(r) ==
    /\ req[r].pc \in {"liveOpen", "liveLogin"} /\ Respond(r)
    /\ CloseLive("error")
    /\ Frame /\ KeepRow /\ KeepView /\ KeepWatch /\ UNCHANGED profile

UserStopsLive ==
    /\ "stopLive" \in BrowserOps /\ live # Down
    /\ StopLive
    /\ Frame /\ UNCHANGED req /\ KeepRow /\ KeepView /\ KeepWatch
    /\ UNCHANGED profile

UserStopsView ==
    /\ "stopView" \in BrowserOps /\ view # Down
    /\ StopView
    /\ Frame /\ UNCHANGED req /\ KeepRow /\ KeepLive /\ KeepWatch
    /\ UNCHANGED profile

-----------------------------------------------------------------------------
(* The phone and the process.                                              *)

\* The user scans the QR code, which only an open browser can show.
PhoneLinks ==
    /\ chrome # {} /\ profile[Device] = "blank"
    /\ profile' = [profile EXCEPT ![Device] = "linked"]
    /\ Frame /\ UNCHANGED <<req, chrome>> /\ KeepRow /\ KeepView /\ KeepLive
    /\ KeepWatch /\ KeepLock

\* The API restarts: its browsers and coroutines die, the key stays in Redis.
ApiRestarts ==
    /\ restarts < MaxRestarts /\ MoreEvents
    /\ restarts' = restarts + 1
    /\ view' = Down /\ live' = Down
    /\ req' = [r \in Requests |-> NoRequest]
    /\ watch' = [v \in Watches |-> NoWatching]
    /\ active' = NoWatch /\ chrome' = {}
    /\ UNCHANGED <<scanVars, served, profile>> /\ KeepRow /\ KeepLock

\* The 30 minutes of a lock that nobody renews.
BrowserLockExpires ==
    /\ profileLock[Device] \in Requests
    /\ \/ LongBrowsing
       \/ /\ profileLock[Device] \notin {view.lock, live.lock}
          /\ At(profileLock[Device], "idle")
    /\ LockExpires(Device)
    /\ Frame /\ UNCHANGED req /\ KeepRow /\ KeepView /\ KeepLive /\ KeepWatch
    /\ KeepDisk

-----------------------------------------------------------------------------
NewRequests(r) == Connect(r) \/ Capture(r) \/ Disconnect(r) \/ ListGroups(r)
                  \/ StartLive(r)

RequestStep(r) ==
    \/ ConnectStopsLive(r) \/ ConnectResetsView(r) \/ ConnectInProgress(r)
    \/ ConnectMarks(r) \/ StartView(r) \/ ClaimProfile(r) \/ StealLock(r)
    \/ ClaimFails(r) \/ LaunchView(r) \/ ViewReady(r) \/ StartFails(r)
    \/ AwaitView(r) \/ ConnectFails(r) \/ SpawnWatcher(r)
    \/ CaptureRefused(r) \/ CaptureSaves(r) \/ CaptureStops(r)
    \/ DisconnectStopsLive(r) \/ DisconnectStopsView(r)
    \/ DisconnectReserves(r) \/ DisconnectBusy(r) \/ DisconnectClears(r)
    \/ ListLocks(r) \/ ListBusy(r) \/ ListOpens(r) \/ ListLooks(r)
    \/ ListEnds(r)
    \/ LiveAlready(r) \/ LiveLocks(r) \/ LiveBusy(r) \/ LiveOpens(r)
    \/ LiveRuns(r) \/ LiveFails(r)

WatcherStep(v) ==
    \/ WatchLogin(v) \/ WatchGivesUp(v) \/ WatchCaptures(v) \/ WatchSaves(v)
    \/ WatchStopsView(v) \/ WatchDone(v)

BrowserNext ==
    \/ \E r \in Requests : NewRequests(r) \/ RequestStep(r)
    \/ \E v \in Watches : WatcherStep(v)
    \/ UserStopsLive \/ UserStopsView
    \/ PhoneLinks \/ ApiRestarts \/ BrowserLockExpires

\* A scan launches its browser where Chromium lets it.
ScansMove ==
    /\ ScanNext
    /\ ops' = ops \/ MoreEvents
    /\ UNCHANGED browserVars
    /\ \A w \in Workers : ~Scanning(w) /\ Scanning(w)' /\ SharedHost => chrome = {}

DeviceInit ==
    /\ LocksInit /\ ScanInit
    /\ row \in [Profiles -> {"connected", "disconnected"}]
    /\ profile = [p \in Profiles |-> IF row[p] = "connected" THEN "linked"
                                     ELSE "missing"]
    /\ BrowserInit

DeviceSpec == DeviceInit /\ [][BrowserNext \/ ScansMove]_allVars

\* Coroutines and watchers go on to their end: everything they wait for has a
\* time-out.  Users and the phone owe nothing.
FairDeviceSpec ==
    /\ DeviceSpec
    /\ \A r \in Requests : WF_allVars(RequestStep(r))
    /\ \A v \in Watches : WF_allVars(WatcherStep(v))
    /\ WF_allVars(BrowserLockExpires)

-----------------------------------------------------------------------------
(* Properties *)

\* Every Chromium of the API and every lock it took belongs to a manager or
\* to a request that will close it: none is left running that nobody can
\* stop, and nothing keeps the profile for its 30 minutes behind the user's
\* back.
NothingLeftBehind ==
    /\ \A r \in chrome : r \in view.page \cup live.page \/ ~At(r, "idle")
    /\ \A r \in Requests : LockHeldBy(Device, r) /\ restarts = 0
          => view.lock = r \/ live.lock = r \/ ~At(r, "idle")

\* A row says connected only with the storage state of the device.
ConnectedIsStored == row[Device] = "connected" => stored

\* The live chat that is open owns the profile (while it is open for less
\* than the lock's half hour): Connect takes the lock from nobody in its own
\* process.
LiveOwnsProfile ==
    live.st = "running" /\ restarts = 0 => LockHeldBy(Device, live.lock)

\* The browser view that is open owns the profile: "serializes access across
\* processes" (browser_view.py).
ViewOwnsProfile ==
    view.st = "running" /\ restarts = 0 => LockHeldBy(Device, view.lock)

\* force_release_profile_lock: "Use only when no living process holds the
\* Chromium profile".
StealsOnlyStale ==
    [][\A r \in Requests : StealLock(r) => chrome = {} /\ ~ScanAlive]_allVars

\* A device does not wait for its QR code for ever.
QrResolved ==
    row[Device] = "waiting_qr"
        ~> row[Device] # "waiting_qr" \/ restarts > 0

\* disconnect_whatsapp: the profile is removed with the row.
DisconnectRemovesProfile ==
    cleared /\ (\A r \in Requests : At(r, "idle")) => profile[Device] = "missing"
=============================================================================
