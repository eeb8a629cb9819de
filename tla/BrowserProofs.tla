----------------------------- MODULE BrowserProofs -----------------------------
(* Theorems about the browsers of WhatsAppBrowsers, for every number of       *)
(* requests, watchers and scans, and every bound.                             *)
EXTENDS WhatsAppBrowsers, TLAPS

-----------------------------------------------------------------------------
(* Types, and what a step does to a request and to the lock.                 *)

ReqPcs == {"idle", "stopLive", "stopView", "mark", "start", "claim", "steal",
           "launch", "ready", "await", "failed", "spawn", "saveCapture",
           "stopCaptured", "endLive", "endView", "reserve", "clear",
           "listLock", "listOpen", "listLook", "listClose", "liveLock",
           "liveOpen", "liveLogin"}

Locked  == profileLock[Device]
Holders == Workers \cup Requests \cup {NoHolder}

\* What a request has seen of the row does not matter here.
Typed ==
    /\ \E S : req \in [Requests -> [pc: ReqPcs, seen: S]]
    /\ view \in Manager /\ live \in Manager
    /\ chrome \subseteq Requests /\ restarts \in Nat
    /\ profileLock \in [Profiles -> Holders]

ReqsTyped == \E S : req' \in [Requests -> [pc: ReqPcs, seen: S]]
OnlyReq(r) == \A x \in Requests \ {r} : req'[x] = req[x]

LEMMA ToEffect ==
    ASSUME Typed, NEW r \in Requests, NEW pc \in ReqPcs, To(r, pc)
    PROVE  ReqsTyped /\ OnlyReq(r) /\ req'[r].pc = pc
<1>1. PICK S : req \in [Requests -> [pc: ReqPcs, seen: S]]
  BY DEF Typed
<1> DEFINE x == [req[r] EXCEPT !.pc = pc]
<1>2. x \in [pc: ReqPcs, seen: S] /\ x.pc = pc
  BY <1>1
<1>3. req' = [req EXCEPT ![r] = x]
  BY DEF To
<1> HIDE DEF x
<1>4. req' \in [Requests -> [pc: ReqPcs, seen: S]] /\ req'[r] = x
  BY <1>1, <1>2, <1>3
<1>5. OnlyReq(r)
  BY <1>1, <1>3 DEF OnlyReq
<1> QED
  BY <1>2, <1>4, <1>5 DEF ReqsTyped

LEMMA SetReq ==
    ASSUME Typed, NEW r \in Requests, NEW pc \in ReqPcs, NEW seen,
           req' = [req EXCEPT ![r] = [pc |-> pc, seen |-> seen]]
    PROVE  ReqsTyped /\ OnlyReq(r) /\ req'[r].pc = pc
<1>1. PICK S : req \in [Requests -> [pc: ReqPcs, seen: S]]
  BY DEF Typed
<1> DEFINE T == S \cup {seen}
           x == [pc |-> pc, seen |-> seen]
<1>2. req \in [Requests -> [pc: ReqPcs, seen: T]]
  BY <1>1
<1>3. x \in [pc: ReqPcs, seen: T] /\ x.pc = pc
  OBVIOUS
<1> HIDE DEF x, T
<1>4. req' = [req EXCEPT ![r] = x]
  BY DEF x
<1>5. req' \in [Requests -> [pc: ReqPcs, seen: T]] /\ req'[r] = x
  BY <1>2, <1>3, <1>4
<1>6. OnlyReq(r)
  BY <1>2, <1>4 DEF OnlyReq
<1> QED
  BY <1>3, <1>5, <1>6 DEF ReqsTyped

LEMMA RespondEffect ==
    ASSUME Typed, NEW r \in Requests, Respond(r)
    PROVE  ReqsTyped /\ OnlyReq(r) /\ req'[r].pc = "idle"
<1>1. req' = [req EXCEPT ![r] = [pc |-> "idle", seen |-> "disconnected"]]
  BY DEF Respond, NoRequest
<1>2. "idle" \in ReqPcs
  BY DEF ReqPcs
<1> QED
  BY <1>1, <1>2, SetReq

LocksTyped == profileLock' \in [Profiles -> Holders]

LEMMA LockEffect ==
    ASSUME Typed
    PROVE  /\ \A r \in Requests : Acquire(r) =>
                 LocksTyped /\ Locked = NoHolder /\ Locked' = r
           /\ \A h : Release(h) =>
                 /\ LocksTyped
                 /\ Locked' = IF Locked = h THEN NoHolder ELSE Locked
           /\ ForceReleaseLock(Device) \/ LockExpires(Device) =>
                 LocksTyped /\ Locked' = NoHolder
           /\ UNCHANGED profileLock => LocksTyped /\ Locked' = Locked
           /\ Locked \in Holders
BY DeviceAssumption
DEF Typed, Acquire, AcquireLock, LockFree, Release, ReleaseLock, LockHeldBy,
    ForceReleaseLock, LockExpires, LocksTyped, Locked, Holders

LEMMA ManagerTyped ==
    ASSUME Typed
    PROVE  /\ view.page \subseteq Requests /\ live.page \subseteq Requests
           /\ view.lock \in Ids /\ live.lock \in Ids
           /\ view.busy \in Ids /\ live.busy \in Ids
           /\ view.st \in {"idle", "starting", "running", "error"}
           /\ live.st \in {"idle", "starting", "running", "error"}
BY DEF Typed, Manager

-----------------------------------------------------------------------------
(* The browsers, the locks and who has them.                                 *)

\* Every Chromium belongs to a manager or to a group list, and to one only.
Browsers ==
    /\ view.page \subseteq chrome /\ live.page \subseteq chrome
    /\ view.page \cap live.page = {}
    /\ \A r \in chrome : \/ r \in view.page \cup live.page
                         \/ req[r].pc \in {"listLook", "listClose"}
    /\ \A r \in view.page : req[r].pc \in {"ready", "spawn", "idle"}
    /\ \A r \in live.page : req[r].pc \in {"liveLogin", "idle"}

\* A lock that a request took is with it until a manager has it, together
\* with the browser.
Reserved ==
    restarts = 0 =>
       \A r \in Requests : Locked = r =>
          \/ req[r].pc \in {"launch", "clear", "listOpen", "listLook",
                            "listClose"}
          \/ view.lock = r /\ r \in view.page
          \/ live.lock = r

\* The locks of the two managers are different ones.
TwoLocks ==
    /\ \A r \in Requests : view.lock = r =>
          req[r].pc \in {"launch", "ready", "spawn", "idle"}
    /\ \A r \in Requests : live.lock = r =>
          req[r].pc \in {"liveOpen", "liveLogin", "idle"} /\ view.lock # r

\* A start of the live chat keeps the manager to itself.
LiveStarts ==
    \A r \in Requests : req[r].pc \in {"liveOpen", "liveLogin"} =>
       live.busy = r /\ live.lock = r /\ live.st = "starting"

\* From then on the profile is the live chat's.
LiveLocked ==
    restarts = 0 /\ live.st \in {"starting", "running"} =>
       live.lock \in Requests /\ Locked = live.lock

BrowserInv == Typed /\ Browsers /\ Reserved /\ TwoLocks /\ LiveStarts

\* Half an hour is not up while a browser is open.
Keeps == /\ Browsers' /\ Reserved' /\ TwoLocks' /\ LiveStarts'
         /\ ~LongBrowsing /\ LiveLocked => LiveLocked'

\* A request that has neither a browser nor a lock.
Plain == {"stopLive", "stopView", "mark", "start", "claim", "steal", "await",
          "failed", "saveCapture", "stopCaptured", "endLive", "endView",
          "reserve", "listLock", "liveLock"}

PlainMoves ==
    \A x \in Requests :
       \/ req'[x].pc = req[x].pc
       \/ req[x].pc \in Plain /\ req'[x].pc \in Plain \cup {"idle", "spawn"}
       \/ req[x].pc = "ready" /\ req'[x].pc = "spawn"
       \/ req[x].pc = "spawn" /\ req'[x].pc = "idle"
       \/ req[x].pc = "listLook" /\ req'[x].pc = "listClose"
       \/ /\ req[x].pc = "idle" /\ x \notin chrome
          /\ view.lock # x /\ live.lock # x /\ Locked # x
          /\ req'[x].pc \in Plain \cup {"listLook"}

ViewStays == view'.page = view.page /\ view'.lock = view.lock
LiveStays == live' = live
ChromeStays == chrome' = chrome

LEMMA NoHolderIsNone == NoHolder \notin Requests
BY DeviceAssumption

\* Who has nothing may go on, and a lock that the live chat does not use may
\* go to no request.
LEMMA QuietKeeps ==
    ASSUME BrowserInv, PlainMoves, ViewStays, ChromeStays, restarts' = restarts,
           \/ LiveStays
           \/ /\ live.busy = NoHolder /\ live'.st = "error"
              /\ live'.page = live.page /\ live'.lock = live.lock
              /\ live'.busy = live.busy,
           \/ Locked' = Locked
           \/ /\ Locked' \notin Requests
              /\ \/ LongBrowsing
                 \/ live.st \notin {"starting", "running"}
                 \/ Locked \notin Requests
                 \/ Locked # live.lock
    PROVE  Keeps
<1>1. Browsers'
  BY DEF BrowserInv, Browsers, PlainMoves, ViewStays, ChromeStays, LiveStays,
         Plain, Typed
<1>2. Reserved'
  BY DEF BrowserInv, Reserved, Browsers, PlainMoves, ViewStays, LiveStays,
         Plain, Typed
<1>3. TwoLocks'
  BY DEF BrowserInv, TwoLocks, PlainMoves, ViewStays, LiveStays, Plain
<1>4. LiveStarts'
  BY NoHolderIsNone
  DEF BrowserInv, LiveStarts, PlainMoves, ViewStays, LiveStays, Plain
<1>5. ~LongBrowsing /\ LiveLocked => LiveLocked'
  BY DEF LiveLocked, LiveStays
<1> QED
  BY <1>1, <1>2, <1>3, <1>4, <1>5 DEF Keeps

LEMMA CloseViewKeeps ==
    ASSUME BrowserInv, PlainMoves, LiveStays, restarts' = restarts,
           chrome' = chrome \ view.page,
           view'.page = {}, view'.lock = NoHolder,
           Locked' = IF Locked = view.lock THEN NoHolder ELSE Locked
    PROVE  Keeps
<1>1. Browsers'
  BY DEF BrowserInv, Browsers, PlainMoves, LiveStays, Plain, Typed
<1>2. Reserved'
  BY NoHolderIsNone
  DEF BrowserInv, Reserved, Browsers, PlainMoves, LiveStays, Plain, Typed
<1>3. TwoLocks'
  BY NoHolderIsNone DEF BrowserInv, TwoLocks, PlainMoves, LiveStays, Plain
<1>4. LiveStarts'
  BY NoHolderIsNone DEF BrowserInv, LiveStarts, PlainMoves, LiveStays, Plain
<1>5. LiveLocked => LiveLocked'
  BY DEF BrowserInv, TwoLocks, LiveLocked, LiveStays
<1> QED
  BY <1>1, <1>2, <1>3, <1>4, <1>5 DEF Keeps

\* The request that started the live chat may end with it.
LEMMA CloseLiveKeeps ==
    ASSUME BrowserInv, ViewStays, restarts' = restarts,
           \/ PlainMoves /\ live.busy = NoHolder
           \/ \E r \in Requests : /\ req[r].pc \in {"liveOpen", "liveLogin"}
                                  /\ req'[r].pc = "idle" /\ OnlyReq(r),
           chrome' = chrome \ live.page,
           live'.st \notin {"starting", "running"},
           live'.page = {}, live'.lock = NoHolder,
           Locked' = IF Locked = live.lock THEN NoHolder ELSE Locked
    PROVE  Keeps
<1>1. Browsers'
  BY DEF BrowserInv, Browsers, PlainMoves, ViewStays, Plain, OnlyReq, Typed
<1>2. Reserved'
  BY NoHolderIsNone
  DEF BrowserInv, Reserved, Browsers, LiveStarts, PlainMoves, ViewStays, Plain,
      OnlyReq, Typed
<1>3. TwoLocks'
  BY NoHolderIsNone
  DEF BrowserInv, TwoLocks, PlainMoves, ViewStays, Plain, OnlyReq
<1>4. LiveStarts'
  BY NoHolderIsNone
  DEF BrowserInv, LiveStarts, PlainMoves, ViewStays, Plain, OnlyReq
<1>5. LiveLocked'
  BY DEF LiveLocked
<1> QED
  BY <1>1, <1>2, <1>3, <1>4, <1>5 DEF Keeps

\* A request takes the free lock: for the view, for a disconnect or for the
\* group list.
LEMMA TakesLockKeeps ==
    ASSUME BrowserInv, NEW r \in Requests, OnlyReq(r), LiveStays, ChromeStays,
           restarts' = restarts, req[r].pc \in Plain,
           \/ req'[r].pc = "launch" /\ view'.page = view.page /\ view'.lock = r
           \/ req'[r].pc \in {"clear", "listOpen"} /\ ViewStays,
           Locked = NoHolder, Locked' = r
    PROVE  Keeps
<1>1. Browsers'
  BY DEF BrowserInv, Browsers, ViewStays, LiveStays, ChromeStays, Plain,
         OnlyReq, Typed
<1>2. Reserved'
  BY DEF BrowserInv, Reserved, OnlyReq, Typed
<1>3. TwoLocks'
  BY DEF BrowserInv, TwoLocks, ViewStays, LiveStays, Plain, OnlyReq
<1>4. LiveStarts'
  BY DEF BrowserInv, LiveStarts, LiveStays, Plain, OnlyReq
<1>5. LiveLocked => LiveLocked'
  BY NoHolderIsNone DEF LiveLocked, LiveStays
<1> QED
  BY <1>1, <1>2, <1>3, <1>4, <1>5 DEF Keeps

\* A request gives back its lock, if it still has it, and with it the browser
\* of a group list.
LEMMA GivesLockKeeps ==
    ASSUME BrowserInv, NEW r \in Requests, OnlyReq(r), LiveStays, ViewStays,
           chrome' = chrome \/ chrome' = chrome \ {r}, restarts' = restarts,
           \/ req[r].pc = "clear"
           \/ req[r].pc \in {"listOpen", "listClose"} /\ r \notin chrome',
           req'[r].pc = "idle",
           Locked' = IF Locked = r THEN NoHolder ELSE Locked
    PROVE  Keeps
<1>1. Browsers'
  BY DEF BrowserInv, Browsers, ViewStays, LiveStays, OnlyReq, Typed
<1>2. Reserved'
  BY NoHolderIsNone
  DEF BrowserInv, Reserved, Browsers, ViewStays, LiveStays, OnlyReq, Typed
<1>3. TwoLocks'
  BY DEF BrowserInv, TwoLocks, ViewStays, LiveStays, OnlyReq
<1>4. LiveStarts'
  BY DEF BrowserInv, LiveStarts, LiveStays, OnlyReq
<1>5. LiveLocked => LiveLocked'
  BY DEF BrowserInv, TwoLocks, LiveLocked, LiveStays
<1> QED
  BY <1>1, <1>2, <1>3, <1>4, <1>5 DEF Keeps

\* A browser comes up where none was: of the view, of a group list or of the
\* live chat.
LEMMA LaunchKeeps ==
    ASSUME BrowserInv, NEW r \in Requests, OnlyReq(r), restarts' = restarts,
           chrome = {}, chrome' = {r}, Locked' = Locked,
           \/ /\ req[r].pc = "launch" /\ req'[r].pc = "ready" /\ LiveStays
              /\ view'.page = {r} /\ view'.lock = r
           \/ /\ req[r].pc = "listOpen" /\ req'[r].pc = "listLook" /\ LiveStays
              /\ ViewStays
           \/ /\ req[r].pc = "liveOpen" /\ req'[r].pc = "liveLogin" /\ ViewStays
              /\ live'.page = {r} /\ live'.lock = live.lock
              /\ live'.busy = live.busy /\ live'.st = live.st
    PROVE  Keeps
<1>1. Browsers'
  BY DEF BrowserInv, Browsers, ViewStays, LiveStays, OnlyReq, Typed
<1>2. Reserved'
  BY DEF BrowserInv, Reserved, Browsers, ViewStays, LiveStays, OnlyReq, Typed
<1>3. TwoLocks'
  BY DEF BrowserInv, TwoLocks, ViewStays, LiveStays, OnlyReq
<1>4. LiveStarts'
  BY DEF BrowserInv, LiveStarts, LiveStays, OnlyReq
<1>5. LiveLocked => LiveLocked'
  BY DEF LiveLocked, LiveStays
<1> QED
  BY <1>1, <1>2, <1>3, <1>4, <1>5 DEF Keeps

LEMMA StartFailsKeeps ==
    ASSUME BrowserInv, NEW r \in Requests, OnlyReq(r), LiveStays,
           restarts' = restarts, req[r].pc \in {"launch", "ready"},
           req'[r].pc = "failed", view'.page = {}, view'.lock = NoHolder,
           chrome' = chrome \ (view.page \cup {r}),
           Locked' = IF Locked \in {view.lock, r} THEN NoHolder ELSE Locked
    PROVE  Keeps
<1>1. Browsers'
  BY DEF BrowserInv, Browsers, LiveStays, OnlyReq, Typed
<1>2. Reserved'
  BY NoHolderIsNone
  DEF BrowserInv, Reserved, Browsers, LiveStays, OnlyReq, Typed
<1>3. TwoLocks'
  BY NoHolderIsNone DEF BrowserInv, TwoLocks, LiveStays, OnlyReq
<1>4. LiveStarts'
  BY DEF BrowserInv, LiveStarts, LiveStays, OnlyReq
<1>5. LiveLocked => LiveLocked'
  BY DEF BrowserInv, TwoLocks, LiveLocked, LiveStays
<1> QED
  BY <1>1, <1>2, <1>3, <1>4, <1>5 DEF Keeps

\* The live chat takes the free lock, or is up.
LEMMA LiveTakesKeeps ==
    ASSUME BrowserInv, NEW r \in Requests, OnlyReq(r), ViewStays, ChromeStays,
           restarts' = restarts, req[r].pc = "liveLock", live.busy = NoHolder,
           req'[r].pc = "liveOpen", live'.page = live.page, live'.lock = r,
           live'.st = "starting", live'.busy = r,
           Locked = NoHolder, Locked' = r
    PROVE  Keeps
<1>1. Browsers'
  BY DEF BrowserInv, Browsers, ViewStays, ChromeStays, OnlyReq, Typed
<1>2. Reserved'
  BY DEF BrowserInv, Reserved, OnlyReq, Typed
<1>3. TwoLocks'
  BY DEF BrowserInv, TwoLocks, ViewStays, OnlyReq
<1>4. LiveStarts'
  BY NoHolderIsNone DEF BrowserInv, LiveStarts, OnlyReq
<1>5. LiveLocked'
  BY DEF LiveLocked
<1> QED
  BY <1>1, <1>2, <1>3, <1>4, <1>5 DEF Keeps

LEMMA LiveRunsKeeps ==
    ASSUME BrowserInv, NEW r \in Requests, OnlyReq(r), ViewStays, ChromeStays,
           restarts' = restarts, req[r].pc = "liveLogin",
           req'[r].pc = "idle", live'.page = live.page, live'.lock = live.lock,
           live'.st = "running", Locked' = Locked
    PROVE  Keeps
<1>1. Browsers'
  BY DEF BrowserInv, Browsers, ViewStays, ChromeStays, OnlyReq, Typed
<1>2. Reserved'
  BY DEF BrowserInv, Reserved, ViewStays, OnlyReq, Typed
<1>3. TwoLocks'
  BY DEF BrowserInv, TwoLocks, ViewStays, OnlyReq
<1>4. LiveStarts'
  BY DEF BrowserInv, LiveStarts, OnlyReq
<1>5. LiveLocked => LiveLocked'
  BY DEF BrowserInv, LiveStarts, LiveLocked
<1> QED
  BY <1>1, <1>2, <1>3, <1>4, <1>5 DEF Keeps

-----------------------------------------------------------------------------
(* Every step is one of these.                                               *)

Step == Typed' /\ Keeps

LEMMA TypedNext ==
    ASSUME ReqsTyped, view' \in Manager, live' \in Manager,
           chrome' \subseteq Requests, restarts' \in Nat, LocksTyped
    PROVE  Typed'
BY DEF Typed, ReqsTyped, LocksTyped

LEMMA SameReqs ==
    ASSUME Typed, UNCHANGED req
    PROVE  ReqsTyped /\ PlainMoves
BY DEF Typed, ReqsTyped, PlainMoves

LEMMA OneMoves ==
    ASSUME NEW r \in Requests, OnlyReq(r),
           \/ req[r].pc \in Plain /\ req'[r].pc \in Plain \cup {"idle", "spawn"}
           \/ req[r].pc = "ready" /\ req'[r].pc = "spawn"
           \/ req[r].pc = "spawn" /\ req'[r].pc = "idle"
           \/ req[r].pc = "listLook" /\ req'[r].pc = "listClose"
           \/ /\ req[r].pc = "idle" /\ r \notin chrome
              /\ view.lock # r /\ live.lock # r /\ Locked # r
              /\ req'[r].pc \in Plain \cup {"listLook"}
    PROVE  PlainMoves
BY DEF PlainMoves, OnlyReq

LEMMA PlainTyped == Plain \cup {"idle", "spawn", "listLook"} \subseteq ReqPcs
BY DEF Plain, ReqPcs

\* Only the request goes on.
LEMMA OnlyReqStep ==
    ASSUME BrowserInv, ReqsTyped, PlainMoves,
           UNCHANGED <<view, live, chrome, restarts, profileLock>>
    PROVE  Step
<1>1. Typed'
  BY TypedNext, LockEffect DEF BrowserInv, Typed
<1>2. Locked' = Locked
  BY DEF Locked
<1>3. ViewStays /\ LiveStays /\ ChromeStays
  BY DEF ViewStays, LiveStays, ChromeStays
<1> QED
  BY <1>1, <1>2, <1>3, QuietKeeps DEF Step

LEMMA DownTyped ==
    /\ Down \in Manager /\ Down.page = {} /\ Down.lock = NoHolder
    /\ Down.st = "idle" /\ Down.busy = NoHolder
BY DEF Down, Manager, Ids

LEMMA CloseViewEffect ==
    ASSUME Typed, NEW st \in {"idle", "starting", "running", "error"},
           NEW busy \in Ids, CloseView(st, busy)
    PROVE  /\ view' \in Manager /\ view'.page = {} /\ view'.lock = NoHolder
           /\ chrome' = chrome \ view.page /\ chrome' \subseteq Requests
           /\ LocksTyped
           /\ Locked' = IF Locked = view.lock THEN NoHolder ELSE Locked
<1> DEFINE x == [Down EXCEPT !.st = st, !.busy = busy]
<1>1. x \in Manager /\ x.page = {} /\ x.lock = NoHolder
  BY DownTyped DEF Manager
<1>2. view' = x /\ chrome' = chrome \ view.page /\ Release(view.lock)
  BY DEF CloseView
<1> HIDE DEF x
<1> QED
  BY <1>1, <1>2, LockEffect DEF Typed

LEMMA CloseLiveEffect ==
    ASSUME Typed, NEW st \in {"idle", "error"}, CloseLive(st)
    PROVE  /\ live' \in Manager /\ live'.page = {} /\ live'.lock = NoHolder
           /\ live'.st = st
           /\ chrome' = chrome \ live.page /\ chrome' \subseteq Requests
           /\ LocksTyped
           /\ Locked' = IF Locked = live.lock THEN NoHolder ELSE Locked
<1> DEFINE x == [Down EXCEPT !.st = st]
<1>1. x \in Manager /\ x.page = {} /\ x.lock = NoHolder /\ x.st = st
  BY DownTyped DEF Manager
<1>2. live' = x /\ chrome' = chrome \ live.page /\ Release(live.lock)
  BY DEF CloseLive
<1> HIDE DEF x
<1> QED
  BY <1>1, <1>2, LockEffect DEF Typed

LEMMA StopViewStep ==
    ASSUME BrowserInv, ReqsTyped, PlainMoves, StopView,
           UNCHANGED <<live, restarts>>
    PROVE  Step
<1>1. CloseView("idle", NoHolder) /\ NoHolder \in Ids /\ Typed
  BY DEF StopView, Ids, BrowserInv
<1>2. /\ view' \in Manager /\ view'.page = {} /\ view'.lock = NoHolder
      /\ chrome' = chrome \ view.page /\ chrome' \subseteq Requests
      /\ LocksTyped
      /\ Locked' = IF Locked = view.lock THEN NoHolder ELSE Locked
  BY <1>1, CloseViewEffect
<1>3. Typed'
  BY <1>1, <1>2, TypedNext DEF Typed
<1> QED
  BY <1>2, <1>3, CloseViewKeeps DEF Step, LiveStays

LEMMA StopLiveStep ==
    ASSUME BrowserInv, ReqsTyped, PlainMoves, StopLive,
           UNCHANGED <<view, restarts>>
    PROVE  Step
<1>1. CloseLive("idle") /\ live.busy = NoHolder /\ Typed
  BY DEF StopLive, BrowserInv
<1>2. /\ live' \in Manager /\ live'.page = {} /\ live'.lock = NoHolder
      /\ live'.st = "idle"
      /\ chrome' = chrome \ live.page /\ chrome' \subseteq Requests
      /\ LocksTyped
      /\ Locked' = IF Locked = live.lock THEN NoHolder ELSE Locked
  BY <1>1, CloseLiveEffect
<1>3. Typed'
  BY <1>1, <1>2, TypedNext DEF Typed
<1> QED
  BY <1>1, <1>2, <1>3, CloseLiveKeeps DEF Step, ViewStays

\* Requests that only load and decide.
LEMMA NewRequestFrom ==
    ASSUME BrowserInv, NEW r \in Requests, NEW op,
           NEW pc \in Plain \cup {"listLook"}, NewRequest(r, op, pc)
    PROVE  Step
<1>2. req' = [req EXCEPT ![r] = [pc |-> pc, seen |-> row[Device]]]
  BY DEF NewRequest
<1>3. ReqsTyped /\ OnlyReq(r) /\ req'[r].pc = pc
  BY <1>2, PlainTyped, SetReq DEF BrowserInv
<1>4. /\ req[r].pc = "idle" /\ r \notin chrome
      /\ view.lock # r /\ live.lock # r /\ Locked # r
  BY DEF NewRequest, At, Locked
<1>5. UNCHANGED <<view, live, chrome, restarts, profileLock>>
  BY DEF NewRequest, KeepView, KeepLive, KeepLock, KeepDisk
<1> QED
  BY <1>3, <1>4, <1>5, OneMoves, OnlyReqStep

LEMMA NewRequestStep ==
    ASSUME BrowserInv, NEW r \in Requests, NewRequests(r)
    PROVE  Step
<1>1. {"stopLive", "saveCapture", "endLive", "listLock", "liveLock"}
         \subseteq Plain
  BY DEF Plain
<1>2. CASE Connect(r)
  BY <1>1, <1>2, NewRequestFrom DEF Connect
<1>3. CASE Capture(r)
  BY <1>1, <1>3, NewRequestFrom DEF Capture
<1>4. CASE Disconnect(r)
  BY <1>1, <1>4, NewRequestFrom DEF Disconnect
<1>5. CASE ListGroups(r)
  BY <1>1, <1>5, NewRequestFrom DEF ListGroups
<1>6. CASE StartLive(r)
  BY <1>1, <1>6, NewRequestFrom DEF StartLive
<1> QED
  BY <1>2, <1>3, <1>4, <1>5, <1>6 DEF NewRequests

\* A request without a browser or a lock goes on, or answers.
LEMMA PlainTo ==
    ASSUME Typed, NEW r \in Requests, NEW pc \in Plain \cup {"idle", "spawn"},
           req[r].pc \in Plain, To(r, pc)
    PROVE  ReqsTyped /\ PlainMoves
<1>1. pc \in ReqPcs
  BY PlainTyped
<1>2. ReqsTyped /\ OnlyReq(r) /\ req'[r].pc = pc
  BY <1>1, ToEffect
<1> QED
  BY <1>2, OneMoves

LEMMA PlainResponds ==
    ASSUME Typed, NEW r \in Requests, req[r].pc \in Plain \cup {"spawn"},
           Respond(r)
    PROVE  ReqsTyped /\ PlainMoves
<1>1. ReqsTyped /\ OnlyReq(r) /\ req'[r].pc = "idle"
  BY RespondEffect
<1> QED
  BY <1>1, OneMoves

LEMMA DecidesStep ==
    ASSUME BrowserInv, NEW r \in Requests,
           \/ ConnectInProgress(r) \/ ConnectMarks(r) \/ AwaitView(r)
           \/ ConnectFails(r) \/ SpawnWatcher(r) \/ CaptureRefused(r)
           \/ CaptureSaves(r) \/ DisconnectBusy(r) \/ ListBusy(r)
           \/ ListLooks(r) \/ LiveAlready(r)
    PROVE  Step
<1>1. UNCHANGED <<view, live, chrome, restarts, profileLock>>
  BY DEF ConnectInProgress, ConnectMarks, AwaitView, ConnectFails,
         SpawnWatcher, CaptureRefused, CaptureSaves, DisconnectBusy, ListBusy,
         ListLooks, LiveAlready, Frame, KeepView, KeepLive, KeepLock, KeepDisk
<1>2. Typed
  BY DEF BrowserInv
<1>3. CASE \/ ConnectInProgress(r) \/ ConnectFails(r) \/ CaptureRefused(r)
           \/ DisconnectBusy(r) \/ ListBusy(r) \/ LiveAlready(r)
           \/ SpawnWatcher(r)
  <2>1. req[r].pc \in Plain \cup {"spawn"} /\ Respond(r)
    BY <1>3 DEF ConnectInProgress, ConnectFails, CaptureRefused,
       DisconnectBusy, ListBusy, LiveAlready, SpawnWatcher, At, Plain
  <2> QED
    BY <1>1, <1>2, <2>1, PlainResponds, OnlyReqStep
<1>4. CASE ConnectMarks(r)
  <2>1. req[r].pc \in Plain /\ "start" \in Plain /\ To(r, "start")
    BY <1>4 DEF ConnectMarks, At, Plain
  <2>2. ReqsTyped /\ PlainMoves
    BY <1>2, <2>1, PlainTo
  <2> QED
    BY <1>1, <2>2, OnlyReqStep
<1>5. CASE AwaitView(r)
  <2>1. req[r].pc \in Plain /\ "failed" \in Plain
        /\ (To(r, "spawn") \/ To(r, "failed"))
    BY <1>5 DEF AwaitView, At, Plain
  <2>2. ReqsTyped /\ PlainMoves
    BY <1>2, <2>1, PlainTo
  <2> QED
    BY <1>1, <2>2, OnlyReqStep
<1>6. CASE CaptureSaves(r)
  <2>1. req[r].pc \in Plain /\ "stopCaptured" \in Plain
        /\ To(r, "stopCaptured")
    BY <1>6 DEF CaptureSaves, At, Plain
  <2>2. ReqsTyped /\ PlainMoves
    BY <1>2, <2>1, PlainTo
  <2> QED
    BY <1>1, <2>2, OnlyReqStep
<1>7. CASE ListLooks(r)
  <2>1. req[r].pc = "listLook" /\ To(r, "listClose") /\ "listClose" \in ReqPcs
    BY <1>7 DEF ListLooks, At, ReqPcs
  <2>2. ReqsTyped /\ OnlyReq(r) /\ req'[r].pc = "listClose"
    BY <1>2, <2>1, ToEffect
  <2>3. PlainMoves
    BY <2>1, <2>2, OneMoves
  <2> QED
    BY <1>1, <2>2, <2>3, OnlyReqStep
<1> QED
  BY <1>3, <1>4, <1>5, <1>6, <1>7

\* Requests that stop a manager before they go on.
LEMMA StopsStep ==
    ASSUME BrowserInv, NEW r \in Requests,
           \/ ConnectStopsLive(r) \/ ConnectResetsView(r) \/ CaptureStops(r)
           \/ DisconnectStopsLive(r) \/ DisconnectStopsView(r)
    PROVE  Step
<1>1. /\ Typed
      /\ {"stopView", "mark", "endView", "reserve"} \subseteq Plain
  BY DEF BrowserInv, Plain
<1>2. ReqsTyped /\ PlainMoves
  <2>1. CASE CaptureStops(r)
    <3>1. req[r].pc \in Plain /\ Respond(r)
      BY <2>1 DEF CaptureStops, At, Plain
    <3> QED
      BY <1>1, <3>1, PlainResponds
  <2>2. CASE \/ ConnectStopsLive(r) \/ ConnectResetsView(r)
             \/ DisconnectStopsLive(r) \/ DisconnectStopsView(r)
    <3>1. /\ req[r].pc \in Plain
          /\ \/ To(r, "stopView") \/ To(r, "mark")
             \/ To(r, "endView") \/ To(r, "reserve")
      BY <2>2 DEF ConnectStopsLive, ConnectResetsView, DisconnectStopsLive,
         DisconnectStopsView, At, Plain
    <3> QED
      BY <1>1, <3>1, PlainTo
  <2> QED
    BY <2>1, <2>2
<1>3. restarts' = restarts
  BY DEF ConnectStopsLive, ConnectResetsView, CaptureStops,
         DisconnectStopsLive, DisconnectStopsView, Frame
<1>4. \/ UNCHANGED <<view, live, chrome, profileLock>>
      \/ StopLive /\ UNCHANGED view
      \/ StopView /\ UNCHANGED live
  BY DEF ConnectStopsLive, ConnectResetsView, CaptureStops,
         DisconnectStopsLive, DisconnectStopsView, KeepView, KeepLive, KeepLock
<1> QED
  BY <1>2, <1>3, <1>4, OnlyReqStep, StopLiveStep, StopViewStep

LEMMA StartViewStep ==
    ASSUME BrowserInv, NEW r \in Requests, StartView(r)
    PROVE  Step
<1>1. /\ Typed /\ req[r].pc \in Plain /\ {"await", "claim"} \subseteq Plain
      /\ To(r, "await") \/ To(r, "spawn") \/ To(r, "claim")
  BY DEF StartView, At, Plain, BrowserInv
<1>2. ReqsTyped /\ PlainMoves
  BY <1>1, PlainTo
<1>3. restarts' = restarts /\ live' = live /\ Typed
  BY DEF StartView, Frame, KeepLive, BrowserInv
<1>4. CASE UNCHANGED <<view, chrome, profileLock>>
  BY <1>2, <1>3, <1>4, OnlyReqStep
<1>5. CASE CloseView(view.st, r)
  <2>1. view.st \in {"idle", "starting", "running", "error"} /\ r \in Ids
    BY <1>3, ManagerTyped DEF Ids
  <2>2. /\ view' \in Manager /\ view'.page = {} /\ view'.lock = NoHolder
        /\ chrome' = chrome \ view.page /\ chrome' \subseteq Requests
        /\ LocksTyped
        /\ Locked' = IF Locked = view.lock THEN NoHolder ELSE Locked
    BY <1>3, <1>5, <2>1, CloseViewEffect
  <2>3. Typed'
    BY <1>2, <1>3, <2>2, TypedNext DEF Typed
  <2> QED
    BY <1>2, <1>3, <2>2, <2>3, CloseViewKeeps DEF Step, LiveStays
<1> QED
  BY <1>4, <1>5 DEF StartView, KeepView, KeepLock

\* view' differs from view in these fields only.
LEMMA ViewWrites ==
    ASSUME Typed, NEW st \in {"idle", "starting", "running", "error"},
           NEW lock \in Ids, NEW page \in SUBSET Requests, NEW busy \in Ids,
           view' = [view EXCEPT !.st = st, !.lock = lock, !.page = page,
                                !.busy = busy]
    PROVE  /\ view' \in Manager /\ view'.page = page /\ view'.lock = lock
BY DEF Typed, Manager

LEMMA ClaimStep ==
    ASSUME BrowserInv, NEW r \in Requests, ClaimProfile(r)
    PROVE  Step
<1>1. /\ req[r].pc \in Plain /\ To(r, "launch") /\ Acquire(r)
      /\ view' = [view EXCEPT !.st = "starting", !.lock = r, !.busy = NoHolder]
      /\ UNCHANGED <<restarts, live, chrome>> /\ Typed
  BY DEF ClaimProfile, Plain, Frame, KeepLive, KeepDisk, BrowserInv
<1>2. ReqsTyped /\ OnlyReq(r) /\ req'[r].pc = "launch"
  BY <1>1, ToEffect DEF ReqPcs
<1>3. LocksTyped /\ Locked = NoHolder /\ Locked' = r
  BY <1>1, LockEffect
<1>4. view' \in Manager /\ view'.page = view.page /\ view'.lock = r
  BY <1>1 DEF Typed, Manager, Ids
<1>5. Typed'
  BY <1>1, <1>2, <1>3, <1>4, TypedNext DEF Typed
<1> QED
  BY <1>1, <1>2, <1>3, <1>4, <1>5, TakesLockKeeps
  DEF Step, LiveStays, ChromeStays

LEMMA StealStep ==
    ASSUME BrowserInv, NEW r \in Requests, StealLock(r)
    PROVE  Step
<1>1. /\ Typed /\ req[r].pc \in Plain /\ {"steal"} \subseteq Plain
      /\ To(r, "steal")
  BY DEF StealLock, At, Plain, BrowserInv
<1>2. ReqsTyped /\ PlainMoves
  BY <1>1, PlainTo
<1>3. /\ UNCHANGED <<view, live, chrome, restarts>>
      /\ ForceReleaseLock(Device) /\ ~LocalOwner /\ Typed
  BY DEF StealLock, Frame, KeepView, KeepLive, KeepDisk, BrowserInv
<1>4. LocksTyped /\ Locked' = NoHolder
  BY <1>3, LockEffect
<1>5. Typed'
  BY <1>2, <1>3, <1>4, TypedNext DEF Typed
<1>6. \/ live.st \notin {"starting", "running"}
      \/ Locked \notin Requests \/ Locked # live.lock
  BY <1>3, NoHolderIsNone DEF LocalOwner
<1> QED
  BY <1>2, <1>3, <1>4, <1>5, <1>6, NoHolderIsNone, QuietKeeps
  DEF Step, ViewStays, LiveStays, ChromeStays

LEMMA ClaimFailsStep ==
    ASSUME BrowserInv, NEW r \in Requests, ClaimFails(r)
    PROVE  Step
<1>1. /\ Typed /\ req[r].pc \in Plain /\ {"failed"} \subseteq Plain
      /\ To(r, "failed")
  BY DEF ClaimFails, At, Plain, BrowserInv
<1>2. ReqsTyped /\ PlainMoves
  BY <1>1, PlainTo
<1>3. /\ view' = [view EXCEPT !.st = "error", !.busy = NoHolder]
      /\ UNCHANGED <<live, chrome, restarts, profileLock>> /\ Typed
  BY DEF ClaimFails, Frame, KeepLive, KeepLock, KeepDisk, BrowserInv
<1>4. view' \in Manager /\ ViewStays
  BY <1>3 DEF Typed, Manager, Ids, ViewStays
<1>5. LocksTyped /\ Locked' = Locked
  BY <1>3, LockEffect
<1>6. Typed'
  BY <1>2, <1>3, <1>4, <1>5, TypedNext DEF Typed
<1> QED
  BY <1>2, <1>3, <1>4, <1>5, <1>6, QuietKeeps
  DEF Step, LiveStays, ChromeStays

LEMMA ViewReadyStep ==
    ASSUME BrowserInv, NEW r \in Requests, ViewReady(r)
    PROVE  Step
<1>1. /\ Typed /\ req[r].pc = "ready" /\ To(r, "spawn") /\ "spawn" \in ReqPcs
  BY DEF ViewReady, At, BrowserInv, ReqPcs
<1>2. ReqsTyped /\ PlainMoves
  <2>1. ReqsTyped /\ OnlyReq(r) /\ req'[r].pc = "spawn"
    BY <1>1, ToEffect
  <2> QED
    BY <1>1, <2>1, OneMoves
<1>3. /\ view' = [view EXCEPT !.st = "running"]
      /\ UNCHANGED <<live, chrome, restarts, profileLock>> /\ Typed
  BY DEF ViewReady, Frame, KeepLive, KeepLock, KeepDisk, BrowserInv
<1>4. view' \in Manager /\ ViewStays
  BY <1>3 DEF Typed, Manager, Ids, ViewStays
<1>5. LocksTyped /\ Locked' = Locked
  BY <1>3, LockEffect
<1>6. Typed'
  BY <1>2, <1>3, <1>4, <1>5, TypedNext DEF Typed
<1> QED
  BY <1>2, <1>3, <1>4, <1>5, <1>6, QuietKeeps
  DEF Step, LiveStays, ChromeStays

LEMMA LaunchesStep ==
    ASSUME BrowserInv, NEW r \in Requests,
           LaunchView(r) \/ ListOpens(r) \/ LiveOpens(r)
    PROVE  Step
<1>1. /\ chrome = {} /\ chrome' = {r} /\ Typed
      /\ UNCHANGED <<restarts, profileLock>>
  BY DEF LaunchView, ListOpens, LiveOpens, MayLaunch, Frame, KeepLock,
         BrowserInv
<1>2. LocksTyped /\ Locked' = Locked
  BY <1>1, LockEffect
<1>3. {"ready", "listLook", "liveLogin"} \subseteq ReqPcs
  BY DEF ReqPcs
<1>4. CASE LaunchView(r)
  <2>1. /\ req[r].pc = "launch" /\ To(r, "ready") /\ live' = live
        /\ view' = [view EXCEPT !.page = {r}, !.lock = r, !.st = "starting"]
    BY <1>4 DEF LaunchView, At, KeepLive
  <2>2. ReqsTyped /\ OnlyReq(r) /\ req'[r].pc = "ready"
    BY <1>1, <1>3, <2>1, ToEffect
  <2>3. view' \in Manager /\ view'.page = {r} /\ view'.lock = r
    BY <1>1, <2>1 DEF Typed, Manager, Ids
  <2>4. Typed'
    BY <1>1, <1>2, <2>1, <2>2, <2>3, TypedNext DEF Typed
  <2> QED
    BY <1>1, <1>2, <2>1, <2>2, <2>3, <2>4, LaunchKeeps DEF Step, LiveStays
<1>5. CASE ListOpens(r)
  <2>1. req[r].pc = "listOpen" /\ To(r, "listLook") /\ UNCHANGED <<view, live>>
    BY <1>5 DEF ListOpens, At, KeepLive, KeepView
  <2>2. ReqsTyped /\ OnlyReq(r) /\ req'[r].pc = "listLook"
    BY <1>1, <1>3, <2>1, ToEffect
  <2>3. Typed'
    BY <1>1, <1>2, <2>1, <2>2, TypedNext DEF Typed
  <2> QED
    BY <1>1, <1>2, <2>1, <2>2, <2>3, LaunchKeeps DEF Step, LiveStays, ViewStays
<1>6. CASE LiveOpens(r)
  <2>1. /\ req[r].pc = "liveOpen" /\ To(r, "liveLogin") /\ view' = view
        /\ live' = [live EXCEPT !.page = {r}]
    BY <1>6 DEF LiveOpens, At, KeepView
  <2>2. ReqsTyped /\ OnlyReq(r) /\ req'[r].pc = "liveLogin"
    BY <1>1, <1>3, <2>1, ToEffect
  <2>3. /\ live' \in Manager /\ live'.page = {r} /\ live'.lock = live.lock
        /\ live'.busy = live.busy /\ live'.st = live.st
    BY <1>1, <2>1 DEF Typed, Manager
  <2>4. Typed'
    BY <1>1, <1>2, <2>1, <2>2, <2>3, TypedNext DEF Typed
  <2> QED
    BY <1>1, <1>2, <2>1, <2>2, <2>3, <2>4, LaunchKeeps DEF Step, ViewStays
<1> QED
  BY <1>4, <1>5, <1>6

LEMMA StartFailsStep ==
    ASSUME BrowserInv, NEW r \in Requests, StartFails(r)
    PROVE  Step
<1>1. /\ req[r].pc \in {"launch", "ready"} /\ To(r, "failed")
      /\ UNCHANGED <<live, restarts>>
      /\ view' = [Down EXCEPT !.st = "error"]
      /\ chrome' = chrome \ (view.page \cup {r}) /\ Typed
      /\ profileLock' = [profileLock EXCEPT ![Device] =
                         IF Locked \in {view.lock, r} THEN NoHolder ELSE Locked]
  BY DEF StartFails, Frame, KeepLive, BrowserInv, Locked
<1>2. ReqsTyped /\ OnlyReq(r) /\ req'[r].pc = "failed"
  BY <1>1, ToEffect DEF ReqPcs
<1>3. view' \in Manager /\ view'.page = {} /\ view'.lock = NoHolder
  BY <1>1, DownTyped DEF Manager
<1>4. LocksTyped
      /\ Locked' = IF Locked \in {view.lock, r} THEN NoHolder ELSE Locked
  BY <1>1, DeviceAssumption, LockEffect DEF Typed, LocksTyped, Locked, Holders
<1>5. Typed'
  BY <1>1, <1>2, <1>3, <1>4, TypedNext DEF Typed
<1> QED
  BY <1>1, <1>2, <1>3, <1>4, <1>5, StartFailsKeeps DEF Step, LiveStays

\* A disconnect and a group list take the lock and give it back.
LEMMA ReservesStep ==
    ASSUME BrowserInv, NEW r \in Requests, DisconnectReserves(r) \/ ListLocks(r)
    PROVE  Step
<1>1. PICK pc \in {"clear", "listOpen"} : To(r, pc)
  BY DEF DisconnectReserves, ListLocks
<1>2. /\ req[r].pc \in Plain /\ Acquire(r) /\ Typed
      /\ UNCHANGED <<view, live, chrome, restarts>>
  BY DEF DisconnectReserves, ListLocks, At, Plain, Frame, KeepView, KeepLive,
         KeepDisk, BrowserInv
<1>3. ReqsTyped /\ OnlyReq(r) /\ req'[r].pc = pc
  BY <1>1, <1>2, ToEffect DEF ReqPcs
<1>4. LocksTyped /\ Locked = NoHolder /\ Locked' = r
  BY <1>2, LockEffect
<1>5. Typed'
  BY <1>2, <1>3, <1>4, TypedNext DEF Typed
<1> QED
  BY <1>2, <1>3, <1>4, <1>5, TakesLockKeeps
  DEF Step, ViewStays, LiveStays, ChromeStays

LEMMA GivesBackStep ==
    ASSUME BrowserInv, NEW r \in Requests, DisconnectClears(r) \/ ListEnds(r)
    PROVE  Step
<1>1. /\ Respond(r) /\ Release(r) /\ UNCHANGED <<view, live, restarts>>
      /\ chrome' = chrome \/ chrome' = chrome \ {r}
      /\ \/ req[r].pc = "clear"
         \/ req[r].pc \in {"listOpen", "listClose"} /\ r \notin chrome'
      /\ Typed
  BY DEF DisconnectClears, ListEnds, At, Frame, KeepView, KeepLive, KeepDisk,
         BrowserInv
<1>2. ReqsTyped /\ OnlyReq(r) /\ req'[r].pc = "idle"
  BY <1>1, RespondEffect
<1>3. LocksTyped /\ Locked' = IF Locked = r THEN NoHolder ELSE Locked
  BY <1>1, LockEffect
<1>4. Typed'
  BY <1>1, <1>2, <1>3, TypedNext DEF Typed
<1> QED
  BY <1>1, <1>2, <1>3, <1>4, GivesLockKeeps DEF Step, ViewStays, LiveStays

LEMMA LiveStep ==
    ASSUME BrowserInv, NEW r \in Requests,
           LiveLocks(r) \/ LiveBusy(r) \/ LiveRuns(r) \/ LiveFails(r)
    PROVE  Step
<1>0. Typed /\ UNCHANGED <<view, restarts>> /\ ViewStays
  BY DEF LiveLocks, LiveBusy, LiveRuns, LiveFails, Frame, KeepView, BrowserInv,
         ViewStays
<1>1. CASE LiveLocks(r)
  <2>1. /\ req[r].pc = "liveLock" /\ To(r, "liveOpen") /\ Acquire(r)
        /\ live.busy = NoHolder /\ chrome' = chrome
        /\ live' = [live EXCEPT !.st = "starting", !.lock = r, !.busy = r]
    BY <1>1 DEF LiveLocks, At, KeepDisk
  <2>2. ReqsTyped /\ OnlyReq(r) /\ req'[r].pc = "liveOpen"
    BY <1>0, <2>1, ToEffect DEF ReqPcs
  <2>3. LocksTyped /\ Locked = NoHolder /\ Locked' = r
    BY <1>0, <2>1, LockEffect
  <2>4. /\ live' \in Manager /\ live'.page = live.page /\ live'.lock = r
        /\ live'.st = "starting" /\ live'.busy = r
    BY <1>0, <2>1 DEF Typed, Manager, Ids
  <2>5. Typed'
    BY <1>0, <2>1, <2>2, <2>3, <2>4, TypedNext DEF Typed
  <2> QED
    BY <1>0, <2>1, <2>2, <2>3, <2>4, <2>5, LiveTakesKeeps DEF Step, ChromeStays
<1>2. CASE LiveBusy(r)
  <2>1. /\ req[r].pc \in Plain /\ Respond(r)
        /\ live.busy = NoHolder /\ UNCHANGED <<chrome, profileLock>>
        /\ live' = [live EXCEPT !.st = "error"]
    BY <1>2 DEF LiveBusy, At, KeepDisk, KeepLock, Plain
  <2>2. ReqsTyped /\ PlainMoves
    BY <1>0, <2>1, PlainResponds
  <2>3. /\ live' \in Manager /\ live'.page = live.page
        /\ live'.lock = live.lock /\ live'.st = "error"
        /\ live'.busy = live.busy
    BY <1>0, <2>1 DEF Typed, Manager
  <2>4. LocksTyped /\ Locked' = Locked
    BY <1>0, <2>1, LockEffect
  <2>5. Typed'
    BY <1>0, <2>1, <2>2, <2>3, <2>4, TypedNext DEF Typed
  <2> QED
    BY <1>0, <2>1, <2>2, <2>3, <2>4, <2>5, QuietKeeps DEF Step, ChromeStays
<1>3. CASE LiveRuns(r)
  <2>1. /\ req[r].pc = "liveLogin" /\ Respond(r)
        /\ UNCHANGED <<chrome, profileLock>>
        /\ live' = [live EXCEPT !.st = "running", !.busy = NoHolder]
    BY <1>3 DEF LiveRuns, At, KeepDisk, KeepLock
  <2>2. ReqsTyped /\ OnlyReq(r) /\ req'[r].pc = "idle"
    BY <1>0, <2>1, RespondEffect
  <2>3. /\ live' \in Manager /\ live'.page = live.page
        /\ live'.lock = live.lock /\ live'.st = "running"
    BY <1>0, <2>1 DEF Typed, Manager, Ids
  <2>4. LocksTyped /\ Locked' = Locked
    BY <1>0, <2>1, LockEffect
  <2>5. Typed'
    BY <1>0, <2>1, <2>2, <2>3, <2>4, TypedNext DEF Typed
  <2> QED
    BY <1>0, <2>1, <2>2, <2>3, <2>4, <2>5, LiveRunsKeeps DEF Step, ChromeStays
<1>4. CASE LiveFails(r)
  <2>1. req[r].pc \in {"liveOpen", "liveLogin"} /\ Respond(r)
        /\ CloseLive("error")
    BY <1>4 DEF LiveFails
  <2>2. ReqsTyped /\ OnlyReq(r) /\ req'[r].pc = "idle"
    BY <1>0, <2>1, RespondEffect
  <2>3. /\ live' \in Manager /\ live'.page = {} /\ live'.lock = NoHolder
        /\ live'.st = "error"
        /\ chrome' = chrome \ live.page /\ chrome' \subseteq Requests
        /\ LocksTyped
        /\ Locked' = IF Locked = live.lock THEN NoHolder ELSE Locked
    BY <1>0, <2>1, CloseLiveEffect
  <2>4. Typed'
    BY <1>0, <2>2, <2>3, TypedNext DEF Typed
  <2> QED
    BY <1>0, <2>1, <2>2, <2>3, <2>4, CloseLiveKeeps DEF Step
<1> QED
  BY <1>1, <1>2, <1>3, <1>4

LEMMA WatcherKeeps ==
    ASSUME BrowserInv, NEW v \in Watches, WatcherStep(v)
    PROVE  Step
<1>1. UNCHANGED <<req, live, restarts>>
  BY DEF WatcherStep, WatchLogin, WatchGivesUp, WatchCaptures, WatchSaves,
         WatchStopsView, WatchDone, WatchStep, Frame, KeepLive
<1>2. StopView \/ UNCHANGED <<view, chrome, profileLock>>
  BY DEF WatcherStep, WatchLogin, WatchGivesUp, WatchCaptures, WatchSaves,
         WatchStopsView, WatchDone, KeepView, KeepLock, KeepDisk
<1>3. ReqsTyped /\ PlainMoves
  BY <1>1, SameReqs DEF BrowserInv
<1> QED
  BY <1>1, <1>2, <1>3, OnlyReqStep, StopViewStep

LEMMA OutsideKeeps ==
    ASSUME BrowserInv,
           \/ UserStopsLive \/ UserStopsView \/ PhoneLinks \/ BrowserLockExpires
    PROVE  Step
<1>1. UNCHANGED <<req, restarts>> /\ ReqsTyped /\ PlainMoves
  BY SameReqs DEF UserStopsLive, UserStopsView, PhoneLinks,
     BrowserLockExpires, Frame, BrowserInv
<1>2. CASE UserStopsLive
  BY <1>1, <1>2, StopLiveStep DEF UserStopsLive, KeepView
<1>3. CASE UserStopsView
  BY <1>1, <1>3, StopViewStep DEF UserStopsView, KeepLive
<1>4. CASE PhoneLinks
  BY <1>1, <1>4, OnlyReqStep DEF PhoneLinks, KeepView, KeepLive, KeepLock
<1>5. CASE BrowserLockExpires
  <2>1. /\ UNCHANGED <<view, live, chrome>> /\ LockExpires(Device) /\ Typed
        /\ LongBrowsing \/ Locked # live.lock
    BY <1>5 DEF BrowserLockExpires, KeepView, KeepLive, KeepDisk, Locked,
                BrowserInv
  <2>2. LocksTyped /\ Locked' = NoHolder
    BY <2>1, LockEffect
  <2>3. Typed'
    BY <1>1, <2>1, <2>2, TypedNext DEF Typed
  <2> QED
    BY <1>1, <2>1, <2>2, <2>3, NoHolderIsNone, QuietKeeps
    DEF Step, ViewStays, LiveStays, ChromeStays
<1> QED
  BY <1>2, <1>3, <1>4, <1>5

LEMMA RestartKeeps ==
    ASSUME BrowserInv, ApiRestarts
    PROVE  Step
<1>1. /\ view' = Down /\ live' = Down /\ chrome' = {} /\ Typed
      /\ restarts' = restarts + 1 /\ UNCHANGED profileLock
      /\ req' = [r \in Requests |-> NoRequest]
  BY DEF ApiRestarts, KeepLock, BrowserInv
<1>2. restarts' \in Nat /\ restarts' # 0
  BY <1>1 DEF Typed
<1>3. ReqsTyped /\ \A r \in Requests : req'[r].pc = "idle"
  <2>1. NoRequest \in [pc: ReqPcs, seen: {"disconnected"}]
    BY DEF NoRequest, ReqPcs
  <2>2. req' \in [Requests -> [pc: ReqPcs, seen: {"disconnected"}]]
    BY <1>1, <2>1
  <2>3. NoRequest.pc = "idle"
    BY DEF NoRequest
  <2> QED
    BY <1>1, <2>2, <2>3 DEF ReqsTyped
<1>4. LocksTyped
  BY <1>1, LockEffect
<1>5. Typed'
  BY <1>1, <1>2, <1>3, <1>4, DownTyped, TypedNext
<1>6. Browsers' /\ Reserved' /\ TwoLocks' /\ LiveStarts' /\ LiveLocked'
  BY <1>1, <1>2, <1>3, DownTyped, NoHolderIsNone
  DEF Browsers, Reserved, TwoLocks, LiveStarts, LiveLocked
<1> QED
  BY <1>5, <1>6 DEF Step, Keeps

\* A scan takes a free lock and gives back its own.
LEMMA ScanLocks ==
    ASSUME Typed, ScanNext
    PROVE  /\ LocksTyped
           /\ \/ Locked' = Locked
              \/ Locked' \notin Requests /\ Locked \notin Requests
<1>1. \/ UNCHANGED profileLock
      \/ \E w \in Workers : \E p : AcquireLock(p, w) \/ ReleaseLock(p, w)
      \/ \E p \in Profiles : profileLock[p] \in Workers /\ LockExpires(p)
  <2>1. ASSUME NEW w \in Workers, ScanStep(w)
        PROVE  \/ UNCHANGED profileLock
               \/ \E p : AcquireLock(p, w) \/ ReleaseLock(p, w)
    BY <2>1 DEF ScanStep, LockProfile, ProfileBusy, MissingProfile,
       LaunchFails, Launch, LoggedIn, QrShown, SlowToLoad, ScrapeGroup,
       GroupNotOpened, LoadPending, Score, FlushRaises, Forward,
       SaveForwarded, PlanNextScan, CloseScan, sessionVars
  <2>2. ASSUME NEW w \in Workers, TakeScan(w) \/ ScanCrash(w)
        PROVE  UNCHANGED profileLock
    BY <2>2 DEF TakeScan, StartScan, SkipScan, ScanCrash, sessionVars
  <2>3. ASSUME NEW f \in Filters, FilterRequest(f) \/ ScanLeaseExpires(f)
        PROVE  UNCHANGED profileLock
    BY <2>3 DEF FilterRequest, ActivateFilter, PauseFilter, DeleteFilter,
       ResetMessages, TriggerScan, SelectGroups, ScanUser, ScanLeaseExpires,
       sessionVars
  <2>4. CASE \/ BeatFindsScans \/ BeatWorks \/ Tick
             \/ \E c \in Chats : MessageArrives(c)
             \/ \E p \in Profiles, st \in {"blank", "missing"} :
                   ProfileLost(p, st)
    BY <2>4 DEF BeatFindsScans, BeatWorks, BeatSendsScan, BeatSkipsScan,
       BeatSendFails, BeatFrame, Tick, MessageArrives, ProfileLost, sessionVars
  <2>5. ASSUME NEW p \in Profiles, ScanLockExpires(p)
        PROVE  profileLock[p] \in Workers /\ LockExpires(p)
    BY <2>5 DEF ScanLockExpires
  <2> QED
    BY <2>1, <2>2, <2>3, <2>4, <2>5 DEF ScanNext
<1>2. \A w \in Workers : w \in Holders /\ w \notin Requests
  BY DeviceAssumption DEF Holders
<1>3. NoHolder \in Holders /\ NoHolder \notin Requests
  BY NoHolderIsNone DEF Holders
<1>4. profileLock \in [Profiles -> Holders] /\ Device \in Profiles
  BY DeviceAssumption DEF Typed
<1>5. CASE UNCHANGED profileLock
  BY <1>4, <1>5 DEF LocksTyped, Locked
<1>6. ASSUME NEW w \in Workers, NEW p, AcquireLock(p, w) \/ ReleaseLock(p, w)
      PROVE  /\ LocksTyped
             /\ \/ Locked' = Locked
                \/ Locked' \notin Requests /\ Locked \notin Requests
  <2>1. \/ profileLock' = profileLock
        \/ /\ profileLock[p] \in {NoHolder, w}
           /\ \/ profileLock' = [profileLock EXCEPT ![p] = w]
              \/ profileLock' = [profileLock EXCEPT ![p] = NoHolder]
    BY <1>6 DEF AcquireLock, ReleaseLock, LockFree, LockHeldBy
  <2>2. CASE profileLock' = profileLock
    BY <1>4, <2>2 DEF LocksTyped, Locked
  <2>3. CASE profileLock' # profileLock
    <3>1. w \in Holders /\ NoHolder \in Holders
          /\ profileLock[p] \notin Requests
      BY <1>2, <1>3, <2>1, <2>3
    <3>2. LocksTyped
      BY <1>4, <2>1, <2>3, <3>1 DEF LocksTyped
    <3>3. \/ Locked' = Locked
          \/ Locked' \notin Requests /\ Locked \notin Requests
      <4>1. CASE p = Device
        BY <1>2, <1>3, <1>4, <2>1, <2>3, <3>1, <4>1 DEF Locked
      <4>2. CASE p # Device
        BY <1>4, <2>1, <2>3, <4>2 DEF Locked
      <4> QED
        BY <4>1, <4>2
    <3> QED
      BY <3>2, <3>3
  <2> QED
    BY <2>2, <2>3
<1>7. ASSUME NEW p \in Profiles, profileLock[p] \in Workers, LockExpires(p)
      PROVE  /\ LocksTyped
             /\ \/ Locked' = Locked
                \/ Locked' \notin Requests /\ Locked \notin Requests
  BY <1>2, <1>3, <1>4, <1>7 DEF LockExpires, LocksTyped, Locked
<1> QED
  BY <1>1, <1>5, <1>6, <1>7

LEMMA ScansKeep ==
    ASSUME BrowserInv, ScansMove
    PROVE  Step
<1>1. UNCHANGED <<view, live, req, chrome, restarts>> /\ ScanNext /\ Typed
  BY DEF ScansMove, browserVars, BrowserInv
<1>2. /\ LocksTyped
      /\ \/ Locked' = Locked
         \/ Locked' \notin Requests /\ Locked \notin Requests
  BY <1>1, ScanLocks
<1>3. ReqsTyped /\ PlainMoves
  BY <1>1, SameReqs
<1>4. Typed'
  BY <1>1, <1>2, <1>3, TypedNext DEF Typed
<1> QED
  BY <1>1, <1>2, <1>3, <1>4, QuietKeeps
  DEF Step, ViewStays, LiveStays, ChromeStays

LEMMA DeviceStep ==
    ASSUME BrowserInv, [BrowserNext \/ ScansMove]_allVars
    PROVE  Step
<1>1. ASSUME NEW r \in Requests, RequestStep(r)  PROVE Step
  BY <1>1, DecidesStep, StopsStep, StartViewStep, ClaimStep, StealStep,
     ClaimFailsStep, ViewReadyStep, LaunchesStep, StartFailsStep, ReservesStep,
     GivesBackStep, LiveStep DEF RequestStep
<1>2. CASE UNCHANGED allVars
  <2>1. UNCHANGED <<view, live, req, chrome, restarts, profileLock>>
    BY <1>2 DEF allVars, browserVars, ScannerVars, sessionVars
  <2> QED
    BY <2>1, SameReqs, OnlyReqStep DEF BrowserInv
<1> QED
  BY <1>1, <1>2, NewRequestStep, WatcherKeeps, OutsideKeeps, RestartKeeps,
     ScansKeep DEF BrowserNext

LEMMA DeviceStart ==
    ASSUME DeviceInit
    PROVE  BrowserInv /\ LiveLocked
<1>1. /\ view = Down /\ live = Down /\ chrome = {} /\ restarts = 0
      /\ req = [r \in Requests |-> NoRequest]
      /\ profileLock = [p \in Profiles |-> NoHolder]
  BY DEF DeviceInit, BrowserInit, LocksInit
<1>2. /\ NoRequest \in [pc: ReqPcs, seen: {"disconnected"}]
      /\ NoRequest.pc = "idle"
  BY DEF NoRequest, ReqPcs
<1>3. req \in [Requests -> [pc: ReqPcs, seen: {"disconnected"}]]
  BY <1>1, <1>2
<1>4. Typed
  BY <1>1, <1>3, DownTyped DEF Typed, Holders
<1>5. Locked = NoHolder
  BY <1>1, DeviceAssumption DEF Locked
<1> QED
  BY <1>1, <1>2, <1>4, <1>5, DownTyped, NoHolderIsNone
  DEF BrowserInv, Browsers, Reserved, TwoLocks, LiveStarts, LiveLocked

\* Every Chromium of the API and every lock it took belongs to a manager or to
\* a request that will close it, whichever browser views, live chats, group
\* lists and disconnects are started and stopped at the same time
\* (services/browser_view.py, whatsapp_live_browser.py,
\* api/v1/whatsapp_scanner.py).
THEOREM NothingLeftBehindCorrect == DeviceSpec => []NothingLeftBehind
<1>1. BrowserInv /\ [BrowserNext \/ ScansMove]_allVars => BrowserInv'
  BY DeviceStep DEF Step, Keeps, BrowserInv
<1>2. BrowserInv => NothingLeftBehind
  BY DEF BrowserInv, Browsers, Reserved, NothingLeftBehind, At, LockHeldBy,
         Locked
<1> QED
  BY <1>1, <1>2, DeviceStart, PTL DEF DeviceSpec

\* The live chat that is open owns the profile, unless it is open for longer
\* than the half hour of its lock: a Connect that finds the lock taken deletes
\* its key only when no live chat of its process has it (browser_view.py).
THEOREM LiveOwnsProfileCorrect ==
    ASSUME ~LongBrowsing
    PROVE  DeviceSpec => []LiveOwnsProfile
<1> DEFINE LiveInv == BrowserInv /\ LiveLocked
<1>1. LiveInv /\ [BrowserNext \/ ScansMove]_allVars => LiveInv'
  BY DeviceStep DEF Step, Keeps, BrowserInv
<1>2. LiveInv => LiveOwnsProfile
  BY DEF LiveLocked, LiveOwnsProfile, LockHeldBy, Locked
<1>3. DeviceInit => LiveInv
  BY DeviceStart
<1> HIDE DEF LiveInv
<1> QED
  BY <1>1, <1>2, <1>3, PTL DEF DeviceSpec
=============================================================================
