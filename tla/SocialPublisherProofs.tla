------------------------ MODULE SocialPublisherProofs ------------------------
(* Theorems about SocialPublisher, for every set of posts, platforms,       *)
(* workers, requests and tokens and every bound.                            *)
EXTENDS SocialPublisher, TLAPS

\* A worker past the claim holds the message it works on, and a request
\* past its load holds the row it loaded.
BusyHasMessage ==
    \A w \in Workers :
        worker[w].pc \in {"uploading", "cleaning", "releasing"}
            => worker[w].msg \in Message

TypeInv == TypeOK /\ BusyHasMessage

-----------------------------------------------------------------------------
(* Typing of the records the actions write. *)

LEMMA IdleTyped == Idle \in WorkerState /\ Idle.pc = "idle"
BY DEF Idle, WorkerState

\* The updates of a row.
LEMMA RowFields ==
    ASSUME NEW x \in Row
    PROVE  /\ x.delay \in Nat /\ x.age \in Nat
           /\ x.platforms \subseteq Platforms /\ x.upload \in Uploads
BY DEF Row

LEMMA SetStatus ==
    ASSUME NEW x \in Row, NEW s \in Status
    PROVE  /\ [x EXCEPT !.status = s, !.age = 0] \in Row
           /\ [x EXCEPT !.status = s, !.age = 0].status = s
BY DEF Row

LEMMA SetStatusAndDelay ==
    ASSUME NEW x \in Row, NEW s \in Status, NEW d \in Nat
    PROVE  /\ [x EXCEPT !.status = s, !.delay = d, !.age = 0] \in Row
           /\ [x EXCEPT !.status = s, !.delay = d, !.age = 0].status = s
BY DEF Row

LEMMA SetDelay ==
    ASSUME NEW x \in Row, NEW d \in Nat, NEW a \in Nat
    PROVE  /\ [x EXCEPT !.delay = d, !.age = a] \in Row
           /\ [x EXCEPT !.delay = d, !.age = a].status = x.status
BY DEF Row

LEMMA SetPlatforms ==
    ASSUME NEW x \in Row, NEW S \in SUBSET Platforms
    PROVE  /\ [x EXCEPT !.platforms = S, !.age = 0] \in Row
           /\ [x EXCEPT !.platforms = S, !.age = 0].status = x.status
BY DEF Row

\* Writing one row of the table.
LEMMA TableUpdate ==
    ASSUME NEW f \in [Posts -> Row], NEW p \in Posts, NEW x \in Row
    PROVE  [f EXCEPT ![p] = x] \in [Posts -> Row]
OBVIOUS

\* A request that writes has loaded a row of the table.
LEMMA WriterHasPost ==
    ASSUME TypeOK, NEW r \in Requests, NEW op \in AllOps, Writes(r, op)
    PROVE  /\ api[r] \in Request /\ api[r].post \in Posts
           /\ api' \in [Requests -> Request \cup {NoReq}]
BY DEF TypeOK, Writes, Request, NoReq, AllOps

\* The updates of a worker.
LEMMA WorkerUpdate ==
    ASSUME NEW x \in WorkerState,
           NEW c \in {"idle", "dispatching", "uploading", "cleaning", "releasing"},
           NEW m \in Message, NEW T \in SUBSET Platforms,
           NEW K \in SUBSET Platforms, NEW B \in SUBSET Platforms, NEW n \in Nat
    PROVE  /\ [x EXCEPT !.pc = c] \in WorkerState
           /\ [x EXCEPT !.todo = T, !.ok = K, !.bad = B] \in WorkerState
           /\ [x EXCEPT !.pc = c, !.msg = m, !.todo = T, !.handout = n]
                \in WorkerState
BY DEF WorkerState

LEMMA SetWorker ==
    ASSUME TypeInv, NEW w \in Workers, NEW x \in WorkerState,
           x.pc \in {"uploading", "cleaning", "releasing"} => x.msg \in Message,
           worker' = [worker EXCEPT ![w] = x]
    PROVE  worker' \in [Workers -> WorkerState] /\ BusyHasMessage'
BY DEF TypeInv, TypeOK, BusyHasMessage

LEMMA PcUpdate ==
    ASSUME TypeInv, NEW w \in Workers, NEW c \in {"cleaning", "releasing"},
           worker[w].pc \in {"uploading", "cleaning"},
           worker' = [worker EXCEPT ![w].pc = c]
    PROVE  worker' \in [Workers -> WorkerState] /\ BusyHasMessage'
<1> DEFINE x == [worker[w] EXCEPT !.pc = c]
<1>1. worker[w].msg \in Message /\ worker[w] \in WorkerState
  BY DEF TypeInv, TypeOK, BusyHasMessage
<1>2. x \in WorkerState /\ x.msg = worker[w].msg
  BY <1>1 DEF WorkerState
<1>3. worker' = [worker EXCEPT ![w] = x]
  OBVIOUS
<1> HIDE DEF x
<1>4. QED
  BY <1>1, <1>2, <1>3, SetWorker

LEMMA InitTypeInv == Init => TypeInv
<1>1. (CHOOSE u \in Uploads : TRUE) \in Uploads
  BY ConstantsAssumption
<1>2. EmptyRow \in Row
  BY <1>1 DEF EmptyRow, Row, Status
<1>3. NoRows \in [Platforms -> RowStatus]
  BY DEF NoRows, RowStatus
<1>4. Free \in Lease
  BY DEF Free, Lease
<1>5. QED
  BY <1>2, <1>3, <1>4, IdleTyped, SMTT(30)
  DEF Init, TypeInv, TypeOK, BusyHasMessage, Idle

-----------------------------------------------------------------------------
(* Types: the steps of the users. *)

LEMMA UserTypes == TypeInv /\ UserStep => TypeInv'
<1> SUFFICES ASSUME TypeInv, UserStep PROVE TypeInv'
  OBVIOUS
<1> USE DEF TypeInv, TypeOK, BusyHasMessage, dbVars, ghostVars
<1>0. "cancelled" \in Status /\ "pending" \in Status /\ "deleted" \in Status
  BY DEF Status
<1>1. ASSUME NEW p \in Posts, NEW kind \in Kinds, NEW d \in 0..MaxDelay,
             NEW S \in (SUBSET Platforms) \ {{}}, NEW u \in Uploads,
             CreatePost(p, kind, d, S, u)
      PROVE  TypeInv'
  BY <1>1, ConstantsAssumption DEF CreatePost, Row, Status, Message
<1>2. ASSUME NEW r \in Requests, NEW op \in AllOps, NEW p \in Posts,
             Load(r, op, p)
      PROVE  TypeInv'
  BY <1>2 DEF Load, Request
<1>3. ASSUME NEW r \in Requests, CommitCancel(r)
      PROVE  TypeInv'
  <2>1. Writes(r, "cancel") /\ "cancel" \in AllOps
    BY <1>3 DEF CommitCancel, AllOps
  <2>2. api[r].post \in Posts /\ api' \in [Requests -> Request \cup {NoReq}]
    BY <2>1, WriterHasPost
  <2>3. posts' \in [Posts -> Row]
    BY <1>0, <1>3, <2>2, SetStatus, TableUpdate DEF CommitCancel
  <2>4. QED
    BY <1>3, <2>1, <2>2, <2>3 DEF CommitCancel, Writes
<1>4. ASSUME NEW r \in Requests, NEW d \in 0..MaxDelay, CommitRetry(r, d)
      PROVE  TypeInv'
  <2>1. Writes(r, "retry") /\ "retry" \in AllOps
    BY <1>4 DEF CommitRetry, AllOps
  <2>2. api[r].post \in Posts /\ api' \in [Requests -> Request \cup {NoReq}]
    BY <2>1, WriterHasPost
  <2>3. posts' \in [Posts -> Row]
    <3>1. d \in Nat
      BY ConstantsAssumption
    <3>2. [posts[api[r].post] EXCEPT !.status = "pending", !.delay = d,
                                     !.age = 0] \in Row
      BY <1>0, <2>2, <3>1, SetStatusAndDelay
    <3>3. QED
      BY <1>4, <2>2, <3>2, TableUpdate DEF CommitRetry
  <2>4. results' \in [Posts -> [Platforms -> RowStatus]]
    BY <1>4, <2>2 DEF CommitRetry, RowStatus
  <2>5. handouts' \in [Posts -> Nat]
    BY <1>4, <2>2 DEF CommitRetry
  <2>6. QED
    BY <1>4, <2>1, <2>2, <2>3, <2>4, <2>5 DEF CommitRetry, Writes
<1>5. ASSUME NEW r \in Requests, NEW d \in 0..MaxDelay, CommitReschedule(r, d)
      PROVE  TypeInv'
  <2>1. Writes(r, "reschedule") /\ "reschedule" \in AllOps
    BY <1>5 DEF CommitReschedule, AllOps
  <2>2. api[r].post \in Posts /\ api' \in [Requests -> Request \cup {NoReq}]
    BY <2>1, WriterHasPost
  <2>3. [posts[api[r].post] EXCEPT !.delay = d, !.age = 0] \in Row
    <3>1. d \in Nat
      BY ConstantsAssumption
    <3>2. QED
      BY <1>0, <2>2, <3>1, SetDelay
  <2>4. QED
    BY <1>5, <2>1, <2>2, <2>3, TableUpdate DEF CommitReschedule, Writes
<1>6. ASSUME NEW r \in Requests, NEW S \in (SUBSET Platforms) \ {{}},
             CommitRetarget(r, S)
      PROVE  TypeInv'
  <2>1. Writes(r, "retarget") /\ "retarget" \in AllOps
    BY <1>6 DEF CommitRetarget, AllOps
  <2>2. api[r].post \in Posts /\ api' \in [Requests -> Request \cup {NoReq}]
    BY <2>1, WriterHasPost
  <2>3. [posts[api[r].post] EXCEPT !.platforms = S, !.age = 0] \in Row
    BY <2>2, SetPlatforms, <1>0
  <2>4. QED
    BY <1>6, <2>1, <2>2, <2>3, TableUpdate DEF CommitRetarget, Writes
<1>7. ASSUME NEW r \in Requests, CommitDelete(r)
      PROVE  TypeInv'
  <2>1. Writes(r, "delete") /\ "delete" \in AllOps
    BY <1>7 DEF CommitDelete, AllOps
  <2>2. api[r].post \in Posts /\ api' \in [Requests -> Request \cup {NoReq}]
    BY <2>1, WriterHasPost
  <2>3. posts' \in [Posts -> Row]
    BY <1>0, <1>7, <2>2, SetStatusAndDelay, TableUpdate DEF CommitDelete
  <2>4. results' \in [Posts -> [Platforms -> RowStatus]]
    BY <1>7, <2>2 DEF CommitDelete, NoRows, RowStatus
  <2>5. file' \in [Uploads -> BOOLEAN]
    BY <1>7 DEF CommitDelete
  <2>6. QED
    BY <1>7, <2>1, <2>2, <2>3, <2>4, <2>5 DEF CommitDelete, Writes
<1>8. ASSUME NEW r \in Requests, Abandon(r)
      PROVE  TypeInv'
  BY <1>8 DEF Abandon
<1>9. QED
  BY <1>1, <1>2, <1>3, <1>4, <1>5, <1>6, <1>7, <1>8 DEF UserStep

-----------------------------------------------------------------------------
(* Types: the steps of the workers, the failures and time. *)

LEMMA BatchTypes ==
    ASSUME TypeInv, NEW w \in Workers, NEW p \in Posts, DropFromBatch(w, p)
    PROVE  worker' \in [Workers -> WorkerState] /\ BusyHasMessage'
BY IdleTyped DEF TypeInv, TypeOK, BusyHasMessage, DropFromBatch, WorkerState

LEMMA ReleaseTypes ==
    ASSUME TypeInv, NEW p, NEW t, Release(p, t)
    PROVE  lease' \in [Posts -> Lease]
BY DEF TypeInv, TypeOK, Release, Lease, Free

LEMMA DispatchTypes ==
    ASSUME TypeInv, NEW w \in Workers, DispatchStep(w) PROVE TypeInv'
<1> USE DEF TypeInv, TypeOK, BusyHasMessage, dbVars, ghostVars
<1>1. ASSUME StartDispatch(w)
      PROVE  TypeInv'
  <2>1. worker' \in [Workers -> WorkerState]
    BY <1>1, IdleTyped DEF StartDispatch, WorkerState, DuePosts
  <2>2. posts' \in [Posts -> Row]
    BY <1>1, SetStatus DEF StartDispatch, Status
  <2>3. BusyHasMessage'
    BY <1>1, IdleTyped DEF StartDispatch, WorkerState
  <2>4. handouts' \in [Posts -> Nat]
    <3>1. handouts' = [p \in Posts |-> IF Stale(p) THEN handouts[p] + 1
                                                  ELSE handouts[p]]
      BY <1>1 DEF StartDispatch
    <3>2. QED
      BY <3>1
  <2>5. QED
    BY <1>1, <2>1, <2>2, <2>3, <2>4 DEF StartDispatch
<1>2. ASSUME NEW p \in Posts, DispatchHeld(w, p)
      PROVE  TypeInv'
  BY <1>2, BatchTypes DEF DispatchHeld
<1>3. ASSUME NEW p \in Posts, NEW t \in Tokens, DispatchPost(w, p, t)
      PROVE  TypeInv'
  <2>1. lease' \in [Posts -> Lease]
    BY <1>3, ConstantsAssumption DEF DispatchPost, Lease
  <2>2. queue' \subseteq Message
    BY <1>3 DEF DispatchPost, Message
  <2>3. QED
    BY <1>3, <2>1, <2>2, BatchTypes DEF DispatchPost
<1>4. ASSUME DispatchFails(w)
      PROVE  TypeInv'
  BY <1>4, IdleTyped DEF DispatchFails
<1>5. QED
  BY <1>1, <1>2, <1>3, <1>4 DEF DispatchStep

LEMMA PublishTypes ==
    ASSUME TypeInv, NEW w \in Workers, PublishStep(w) PROVE TypeInv'
<1> USE DEF TypeInv, TypeOK, BusyHasMessage, dbVars, ghostVars
<1>0. /\ "posting" \in Status /\ "posted" \in Status /\ "failed" \in Status
      /\ 0 \in Nat
  BY DEF Status
<1>1. ASSUME NEW m \in queue, StartPublish(w, m)
      PROVE  TypeInv'
  <2>1. m \in Message /\ m.post \in Posts
    BY DEF Message
  <2>2. worker' \in [Workers -> WorkerState] /\ BusyHasMessage'
    <3> DEFINE x == [Idle EXCEPT !.pc = "uploading", !.msg = m,
                                 !.todo = posts[m.post].platforms,
                                 !.handout = handouts[m.post]]
    <3>1. handouts[m.post] \in Nat /\ posts[m.post].platforms \subseteq Platforms
      BY <2>1 DEF Row
    <3>2. x \in WorkerState
      BY <2>1, <3>1, IdleTyped, WorkerUpdate
    <3>3. x.msg = m
      BY IdleTyped DEF WorkerState
    <3>4. worker' = [worker EXCEPT ![w] = x]
      BY <1>1 DEF StartPublish
    <3> HIDE DEF x
    <3>5. QED
      BY <2>1, <3>2, <3>3, <3>4, SetWorker
  <2>4. [posts[m.post] EXCEPT !.status = "posting", !.age = 0] \in Row
    BY <1>0, <2>1, SetStatus
  <2>5. posts' \in [Posts -> Row]
    BY <1>1, <2>1, <2>4, TableUpdate DEF StartPublish
  <2>6. results' \in [Posts -> [Platforms -> RowStatus]]
    BY <1>1, <2>1 DEF StartPublish, RowStatus
  <2>7. QED
    BY <1>1, <2>1, <2>2, <2>5, <2>6 DEF StartPublish
<1>2. ASSUME NEW m \in queue, SkipPublish(w, m)
      PROVE  TypeInv'
  BY <1>2, ReleaseTypes DEF SkipPublish
<1>3. ASSUME NEW pl \in Platforms, NEW landed \in BOOLEAN,
             NEW good \in BOOLEAN, Upload(w, pl, landed, good)
      PROVE  TypeInv'
  <2>1. worker[w].msg.post \in Posts /\ worker[w].handout \in Nat
    BY <1>3 DEF Upload, WorkerState, Message
  <2>2. worker' \in [Workers -> WorkerState] /\ BusyHasMessage'
    <3> DEFINE x == [worker[w] EXCEPT
                       !.todo = worker[w].todo \ {pl},
                       !.ok   = worker[w].ok \cup (IF good THEN {pl} ELSE {}),
                       !.bad  = worker[w].bad \cup (IF good THEN {} ELSE {pl})]
    <3>1. /\ worker[w].msg \in Message
          /\ worker[w].todo \subseteq Platforms
          /\ worker[w].ok \subseteq Platforms /\ worker[w].bad \subseteq Platforms
      BY <1>3 DEF Upload, WorkerState
    <3>2. x \in WorkerState
      BY <3>1 DEF WorkerState
    <3>3. x.msg = worker[w].msg
      BY DEF WorkerState
    <3>4. worker' = [worker EXCEPT ![w] = x]
      BY <1>3 DEF Upload
    <3> HIDE DEF x
    <3>5. QED
      BY <3>1, <3>2, <3>3, <3>4, SetWorker
  <2>3. uploaded' \subseteq Copy
    BY <1>3, <2>1 DEF Upload, Copy
  <2>4. QED
    BY <1>3, <2>2, <2>3 DEF Upload
<1>4. ASSUME Record(w)
      PROVE  TypeInv'
  <2>1. worker[w].msg.post \in Posts
    BY <1>4 DEF Record, WorkerState, Message
  <2>2. worker' \in [Workers -> WorkerState] /\ BusyHasMessage'
    BY <1>4, PcUpdate DEF Record
  <2>3. posts' \in [Posts -> Row]
    <3> DEFINE final == IF AllSucceeded(w) THEN "posted" ELSE "failed"
    <3>1. [posts[worker[w].msg.post] EXCEPT !.status = final, !.age = 0] \in Row
      <4>1. final \in Status
        BY <1>0
      <4> HIDE DEF final
      <4>2. QED
        BY <1>0, <2>1, <4>1, SetStatus
    <3>2. QED
      BY <1>4, <2>1, <3>1, TableUpdate DEF Record
  <2>4. results' \in [Posts -> [Platforms -> RowStatus]]
    BY <1>4, <2>1 DEF Record, OutcomeRow, RowStatus
  <2>5. QED
    BY <1>4, <2>2, <2>3, <2>4 DEF Record
<1>5. ASSUME RecordFails(w)
      PROVE  TypeInv'
  <2>1. worker' \in [Workers -> WorkerState] /\ BusyHasMessage'
    BY <1>5, PcUpdate DEF RecordFails
  <2>2. faults' \in Nat
    BY <1>5 DEF RecordFails
  <2>3. QED
    BY <1>5, <2>1, <2>2 DEF RecordFails
<1>6. ASSUME CleanUp(w)
      PROVE  TypeInv'
  BY <1>6, PcUpdate DEF CleanUp
<1>7. ASSUME Finish(w)
      PROVE  TypeInv'
  BY <1>7, ReleaseTypes, IdleTyped DEF Finish
<1>8. QED
  BY <1>1, <1>2, <1>3, <1>4, <1>5, <1>6, <1>7 DEF PublishStep

LEMMA FaultTypes == ASSUME TypeInv, FaultStep PROVE TypeInv'
<1> USE DEF TypeInv, TypeOK, BusyHasMessage, dbVars, ghostVars
<1>1. ASSUME NEW w \in Workers, Crash(w)
      PROVE  TypeInv'
  BY <1>1, IdleTyped, ConstantsAssumption DEF Crash, Unacked, WorkerState
<1>2. ASSUME NEW w \in Workers, Redeliver(w)
      PROVE  TypeInv'
  BY <1>2 DEF Redeliver, WorkerState
<1>3. ASSUME NEW w \in Workers, NEW p \in Posts, NEW t \in Tokens,
             CrashHoldingLease(w, p, t)
      PROVE  TypeInv'
  <2>1. lease' \in [Posts -> Lease]
    BY <1>3, ConstantsAssumption DEF CrashHoldingLease, Lease
  <2>2. QED
    BY <1>3, <2>1, IdleTyped, ConstantsAssumption DEF CrashHoldingLease
<1>4. QED
  BY <1>1, <1>2, <1>3 DEF FaultStep

LEMMA TickTypes == ASSUME TypeInv, Tick PROVE TypeInv'
<1> USE DEF TypeInv, TypeOK, BusyHasMessage
<1>1. posts' \in [Posts -> Row]
  <2>1. ASSUME NEW p \in Posts
        PROVE  /\ (IF posts[p].delay > 0 THEN posts[p].delay - 1 ELSE 0) \in Nat
               /\ (IF posts[p].status = "posting" /\ posts[p].age <= StaleTicks
                   THEN posts[p].age + 1 ELSE posts[p].age) \in Nat
    BY ConstantsAssumption DEF Row
  <2>2. ASSUME NEW x \in Row, NEW d \in Nat, NEW a \in Nat
        PROVE  [x EXCEPT !.delay = d, !.age = a] \in Row
    BY DEF Row
  <2>3. QED
    BY <2>1, <2>2 DEF Tick
<1>2. lease' \in [Posts -> Lease]
  <2>1. ASSUME NEW p \in Posts, lease[p].ttl > 1
        PROVE  [lease[p] EXCEPT !.ttl = @ - 1] \in Lease
    BY <2>1 DEF Lease
  <2>2. Free \in Lease
    BY DEF Free, Lease
  <2>3. QED
    BY <2>1, <2>2 DEF Tick
<1>3. QED
  BY <1>1, <1>2 DEF Tick, ghostVars

LEMMA StepTypeInv == TypeInv /\ [Next]_vars => TypeInv'
<1>1. TypeInv /\ UNCHANGED vars => TypeInv'
  BY DEF TypeInv, TypeOK, BusyHasMessage, vars
<1>2. QED
  BY <1>1, UserTypes, DispatchTypes, PublishTypes, FaultTypes, TickTypes DEF Next

\* Type correctness of the social publisher.
THEOREM TypeCorrect == Spec => []TypeOK
<1>1. Spec => []TypeInv
  BY InitTypeInv, StepTypeInv, PTL DEF Spec
<1>2. TypeInv => TypeOK
  BY DEF TypeInv
<1>3. QED
  BY <1>1, <1>2, PTL
-----------------------------------------------------------------------------
(* Safety.  Three kinds of step matter to who may publish what: rows are    *)
(* made pending, a worker claims one, a worker uploads.  All other steps    *)
(* are Harmless, and so are the steps that make rows pending once it is     *)
(* known that they give these rows a new handout.                           *)

\* The claims that exist are of handouts that happened, a pending row's
\* handout is not among them, and whatever is published or being published
\* comes from a claim.
ClaimsAreTracked ==
    /\ \A p \in Posts : posts[p].status = "pending"
                            => <<p, handouts[p]>> \notin claims
    /\ \A p \in Posts : posts[p].status = "absent" => handouts[p] = 0
    /\ \A p \in Posts, n \in Nat : <<p, n>> \in claims => n <= handouts[p]
    /\ \A w \in Workers : Running(w)
           => <<worker[w].msg.post, worker[w].handout>> \in claims
    /\ \A c \in uploaded : <<c.post, c.handout>> \in claims

SafetyInv == /\ TypeInv
             /\ ClaimsAreTracked
             /\ OneRunPerHandout
             /\ NoSecondCopyPerHandout

\* A run that goes on is the run it was.
RunsGoOn ==
    \A w \in Workers : Running(w)' =>
        /\ Running(w)
        /\ worker'[w].msg = worker[w].msg
        /\ worker'[w].todo = worker[w].todo
        /\ worker'[w].handout = worker[w].handout

\* A row becomes pending, if at all, by a new handout.
RowsHandedOut ==
    \A p \in Posts :
        \/ /\ handouts'[p] = handouts[p]
           /\ posts'[p].status \in {"pending", "absent"}
                => posts'[p].status = posts[p].status
        \/ /\ handouts'[p] = handouts[p] + 1
           /\ posts'[p].status = "pending"

Harmless == RunsGoOn /\ RowsHandedOut /\ UNCHANGED <<claims, uploaded>>

LEMMA HarmlessKeepsSafety ==
    ASSUME SafetyInv, TypeInv', Harmless PROVE SafetyInv'
<1> USE DEF SafetyInv, Harmless
<1>1. ClaimsAreTracked'
  <2>1. \A p \in Posts : posts[p].status = "pending"
                            => <<p, handouts[p]>> \notin claims
    BY DEF ClaimsAreTracked
  <2>2. handouts \in [Posts -> Nat]
    BY DEF TypeInv, TypeOK
  <2>3. ASSUME NEW p \in Posts, posts'[p].status = "pending"
        PROVE  <<p, handouts'[p]>> \notin claims
    BY <2>2, <2>3 DEF RowsHandedOut, ClaimsAreTracked
  <2>4. ASSUME NEW p \in Posts, posts'[p].status = "absent"
        PROVE  handouts'[p] = 0
    BY <2>4 DEF RowsHandedOut, ClaimsAreTracked
  <2>5. ASSUME NEW p \in Posts, NEW n \in Nat, <<p, n>> \in claims
        PROVE  n <= handouts'[p]
    BY <2>2, <2>5 DEF RowsHandedOut, ClaimsAreTracked
  <2>6. ASSUME NEW w \in Workers, Running(w)'
        PROVE  <<worker'[w].msg.post, worker'[w].handout>> \in claims
    BY <2>6 DEF RunsGoOn, ClaimsAreTracked
  <2>7. QED
    BY <2>3, <2>4, <2>5, <2>6 DEF ClaimsAreTracked
<1>2. OneRunPerHandout'
  BY DEF OneRunPerHandout, RunsGoOn
<1>3. NoSecondCopyPerHandout'
  BY DEF NoSecondCopyPerHandout, RunsGoOn
<1>4. QED
  BY <1>1, <1>2, <1>3

\* Changing one row so that it does not become pending hands nothing out.
LEMMA OneRow ==
    ASSUME TypeInv, NEW p \in Posts, NEW x \in Row,
           posts' = [posts EXCEPT ![p] = x], UNCHANGED handouts,
           x.status \in {"pending", "absent"} => x.status = posts[p].status
    PROVE  RowsHandedOut
BY DEF TypeInv, TypeOK, RowsHandedOut

LEMMA UserStepIsHarmless ==
    ASSUME SafetyInv, UserStep PROVE Harmless
<1> USE DEF SafetyInv, dbVars, ghostVars
<1>0. /\ "cancelled" \in Status /\ "pending" \in Status /\ "deleted" \in Status
      /\ {"cancel", "retry", "reschedule", "retarget", "delete"} \subseteq AllOps
  BY DEF Status, AllOps
<1>1. ASSUME UNCHANGED <<worker, claims, uploaded>>, RowsHandedOut
      PROVE  Harmless
  BY <1>1 DEF Harmless, RunsGoOn, Running
<1>2. ASSUME UNCHANGED <<posts, handouts>>
      PROVE  RowsHandedOut
  BY <1>2 DEF RowsHandedOut
<1>3. ASSUME NEW p \in Posts, NEW kind \in Kinds, NEW d \in 0..MaxDelay,
             NEW S \in (SUBSET Platforms) \ {{}}, NEW u \in Uploads,
             CreatePost(p, kind, d, S, u)
      PROVE  Harmless
  <2>1. handouts[p] = 0
    BY <1>3 DEF CreatePost, ClaimsAreTracked
  <2>2. RowsHandedOut
    BY <1>3, <2>1 DEF CreatePost, RowsHandedOut, TypeInv, TypeOK
  <2>3. QED
    BY <1>1, <1>3, <2>2 DEF CreatePost
<1>4. ASSUME NEW r \in Requests,
             Abandon(r) \/ \E op \in AllOps, p \in Posts : Load(r, op, p)
      PROVE  Harmless
  BY <1>1, <1>2, <1>4 DEF Load, Abandon
<1>5. ASSUME NEW r \in Requests, NEW op \in AllOps, Writes(r, op)
      PROVE  /\ api[r].post \in Posts /\ posts[api[r].post] \in Row
             /\ posts \in [Posts -> Row]
  BY <1>5, WriterHasPost DEF TypeInv, TypeOK
<1>6. ASSUME NEW r \in Requests, CommitCancel(r)
      PROVE  Harmless
  <2>1. api[r].post \in Posts /\ posts[api[r].post] \in Row
    BY <1>0, <1>5, <1>6 DEF CommitCancel
  <2> DEFINE x == [posts[api[r].post] EXCEPT !.status = "cancelled", !.age = 0]
  <2>2. x \in Row /\ x.status = "cancelled"
    BY <1>0, <2>1, SetStatus
  <2>3. posts' = [posts EXCEPT ![api[r].post] = x]
    BY <1>6 DEF CommitCancel
  <2> HIDE DEF x
  <2>4. RowsHandedOut
    BY <1>6, <2>1, <2>2, <2>3, OneRow DEF CommitCancel
  <2>5. QED
    BY <1>1, <1>6, <2>4 DEF CommitCancel, Writes
<1>7. ASSUME NEW r \in Requests, NEW d \in 0..MaxDelay, CommitRetry(r, d)
      PROVE  Harmless
  <2>1. api[r].post \in Posts /\ posts[api[r].post] \in Row
    BY <1>0, <1>5, <1>7 DEF CommitRetry
  <2>2. d \in Nat
    BY ConstantsAssumption
  <2> DEFINE x == [posts[api[r].post] EXCEPT
                        !.status = "pending", !.delay = d, !.age = 0]
  <2>3. x \in Row /\ x.status = "pending"
    BY <1>0, <2>1, <2>2, SetStatusAndDelay
  <2>4. posts' = [posts EXCEPT ![api[r].post] = x]
    BY <1>7 DEF CommitRetry
  <2> HIDE DEF x
  <2>5. handouts' = [handouts EXCEPT ![api[r].post] =
                       IF posts[api[r].post].status = "pending"
                       THEN @ ELSE @ + 1]
    BY <1>7 DEF CommitRetry
  <2>6. RowsHandedOut
    BY <2>1, <2>3, <2>4, <2>5 DEF RowsHandedOut, TypeInv, TypeOK
  <2>7. QED
    BY <1>1, <1>7, <2>6 DEF CommitRetry, Writes
<1>8. ASSUME NEW r \in Requests, NEW d \in 0..MaxDelay, CommitReschedule(r, d)
      PROVE  Harmless
  <2>1. api[r].post \in Posts /\ posts[api[r].post] \in Row
    BY <1>0, <1>5, <1>8 DEF CommitReschedule
  <2>2. d \in Nat
    BY ConstantsAssumption
  <2> DEFINE x == [posts[api[r].post] EXCEPT !.delay = d, !.age = 0]
  <2>3. x \in Row /\ x.status = posts[api[r].post].status
    BY <1>0, <2>1, <2>2, SetDelay
  <2>4. posts' = [posts EXCEPT ![api[r].post] = x]
    BY <1>8 DEF CommitReschedule
  <2> HIDE DEF x
  <2>5. RowsHandedOut
    BY <1>8, <2>1, <2>3, <2>4, OneRow DEF CommitReschedule
  <2>6. QED
    BY <1>1, <1>8, <2>5 DEF CommitReschedule, Writes
<1>9. ASSUME NEW r \in Requests, NEW S \in (SUBSET Platforms) \ {{}},
             CommitRetarget(r, S)
      PROVE  Harmless
  <2>1. api[r].post \in Posts /\ posts[api[r].post] \in Row
    BY <1>0, <1>5, <1>9 DEF CommitRetarget
  <2> DEFINE x == [posts[api[r].post] EXCEPT !.platforms = S, !.age = 0]
  <2>2. x \in Row /\ x.status = posts[api[r].post].status
    BY <1>0, <2>1, SetPlatforms
  <2>3. posts' = [posts EXCEPT ![api[r].post] = x]
    BY <1>9 DEF CommitRetarget
  <2> HIDE DEF x
  <2>4. RowsHandedOut
    BY <1>9, <2>1, <2>2, <2>3, OneRow DEF CommitRetarget
  <2>5. QED
    BY <1>1, <1>9, <2>4 DEF CommitRetarget, Writes
<1>10. ASSUME NEW r \in Requests, CommitDelete(r)
       PROVE  Harmless
  <2>1. api[r].post \in Posts /\ posts[api[r].post] \in Row
    BY <1>0, <1>5, <1>10 DEF CommitDelete
  <2> DEFINE x == [posts[api[r].post] EXCEPT
                        !.status = "deleted", !.delay = 0, !.age = 0]
  <2>2. x \in Row /\ x.status = "deleted"
    BY <1>0, <2>1, SetStatusAndDelay
  <2>3. posts' = [posts EXCEPT ![api[r].post] = x]
    BY <1>10 DEF CommitDelete
  <2> HIDE DEF x
  <2>4. RowsHandedOut
    BY <1>10, <2>1, <2>2, <2>3, OneRow DEF CommitDelete
  <2>5. QED
    BY <1>1, <1>10, <2>4 DEF CommitDelete, Writes
<1>11. QED
  BY <1>3, <1>4, <1>6, <1>7, <1>8, <1>9, <1>10 DEF UserStep

LEMMA DispatchIsHarmless ==
    ASSUME SafetyInv, NEW w \in Workers, DispatchStep(w) PROVE Harmless
<1> USE DEF SafetyInv, dbVars, ghostVars, RunsGoOn, Running
<1>1. ASSUME StartDispatch(w)
      PROVE  Harmless
  <2>1. RunsGoOn
    BY <1>1, IdleTyped DEF StartDispatch, WorkerState, TypeInv, TypeOK
  <2>2. \A p \in Posts :
           IF Stale(p) THEN /\ posts'[p].status = "pending"
                            /\ handouts'[p] = handouts[p] + 1
                       ELSE posts'[p] = posts[p] /\ handouts'[p] = handouts[p]
    <3>1. \A p \in Posts : [posts[p] EXCEPT !.status = "pending", !.age = 0].status
                              = "pending"
      BY DEF TypeInv, TypeOK, Row
    <3>2. \A p \in Posts : Stale(p) => posts'[p].status = "pending"
      BY <1>1, <3>1 DEF StartDispatch
    <3>3. \A p \in Posts : ~Stale(p) => posts'[p] = posts[p]
      BY <1>1 DEF StartDispatch
    <3>4. handouts' = [p \in Posts |-> IF Stale(p) THEN handouts[p] + 1
                                                  ELSE handouts[p]]
      BY <1>1 DEF StartDispatch
    <3>5. QED
      BY <3>2, <3>3, <3>4
  <2>3. RowsHandedOut
    BY <2>2 DEF RowsHandedOut
  <2>4. QED
    BY <1>1, <2>1, <2>3 DEF StartDispatch, Harmless
<1>2. ASSUME NEW p \in Posts, DropFromBatch(w, p), p \in worker[w].batch,
             UNCHANGED <<dbVars, ghostVars>>
      PROVE  Harmless
  BY <1>2, IdleTyped
  DEF DropFromBatch, Harmless, RowsHandedOut, TypeInv, TypeOK, WorkerState
<1>3. ASSUME DispatchFails(w)
      PROVE  Harmless
  BY <1>3, IdleTyped DEF DispatchFails, Harmless, RowsHandedOut, TypeInv, TypeOK
<1>4. QED
  BY <1>1, <1>2, <1>3 DEF DispatchStep, DispatchHeld, DispatchPost

LEMMA PublishIsHarmless ==
    ASSUME SafetyInv, NEW w \in Workers,
           \/ \E m \in queue : SkipPublish(w, m)
           \/ Record(w) \/ RecordFails(w) \/ CleanUp(w) \/ Finish(w)
    PROVE  Harmless
<1> USE DEF SafetyInv, dbVars, ghostVars
<1>1. ASSUME UNCHANGED <<posts, handouts>>
      PROVE  RowsHandedOut
  BY <1>1 DEF RowsHandedOut
<1>2. ASSUME NEW m \in queue, SkipPublish(w, m)
      PROVE  Harmless
  BY <1>1, <1>2 DEF SkipPublish, Harmless, RunsGoOn, Running
<1>3. ASSUME NEW c \in {"cleaning", "releasing"},
             worker' = [worker EXCEPT ![w].pc = c]
      PROVE  RunsGoOn
  BY <1>3 DEF RunsGoOn, Running, TypeInv, TypeOK, WorkerState
<1>4. ASSUME Record(w)
      PROVE  Harmless
  <2>1. RunsGoOn
    BY <1>3, <1>4 DEF Record
  <2>2. worker[w].msg.post \in Posts
    BY <1>4 DEF Record, TypeInv, TypeOK, BusyHasMessage, WorkerState, Message
  <2>3. RowsHandedOut
    <3> DEFINE final == IF AllSucceeded(w) THEN "posted" ELSE "failed"
               x == [posts[worker[w].msg.post] EXCEPT !.status = final, !.age = 0]
    <3>1. final \in Status /\ final \notin {"pending", "absent"}
      BY DEF Status
    <3>2. posts' = posts \/ posts' = [posts EXCEPT ![worker[w].msg.post] = x]
      BY <1>4 DEF Record
    <3> HIDE DEF final
    <3>3. x \in Row /\ x.status = final
      BY <2>2, <3>1, SetStatus DEF TypeInv, TypeOK
    <3> HIDE DEF x
    <3>4. UNCHANGED handouts
      BY <1>4 DEF Record
    <3>5. QED
      BY <1>1, <2>2, <3>1, <3>2, <3>3, <3>4, OneRow
  <2>4. QED
    BY <1>4, <2>1, <2>3 DEF Record, Harmless
<1>5. ASSUME RecordFails(w)
      PROVE  Harmless
  BY <1>1, <1>3, <1>5 DEF RecordFails, Harmless
<1>6. ASSUME CleanUp(w)
      PROVE  Harmless
  BY <1>1, <1>3, <1>6 DEF CleanUp, Harmless
<1>7. ASSUME Finish(w)
      PROVE  Harmless
  <2>1. RunsGoOn
    BY <1>7, IdleTyped DEF Finish, RunsGoOn, Running, TypeInv, TypeOK
  <2>2. QED
    BY <1>1, <1>7, <2>1 DEF Finish, Harmless
<1>8. QED
  BY <1>2, <1>4, <1>5, <1>6, <1>7

LEMMA FaultIsHarmless == ASSUME SafetyInv, FaultStep PROVE Harmless
<1> USE DEF SafetyInv, dbVars, ghostVars
<1>1. ASSUME NEW w \in Workers, worker' = [worker EXCEPT ![w] = Idle]
      PROVE  RunsGoOn
  BY <1>1, IdleTyped DEF RunsGoOn, Running, TypeInv, TypeOK
<1>2. ASSUME UNCHANGED <<posts, handouts>>
      PROVE  RowsHandedOut
  BY <1>2 DEF RowsHandedOut
<1>3. ASSUME NEW w \in Workers, Crash(w)
      PROVE  Harmless
  BY <1>1, <1>2, <1>3 DEF Crash, Harmless
<1>4. ASSUME NEW w \in Workers, Redeliver(w)
      PROVE  Harmless
  BY <1>2, <1>4 DEF Redeliver, Harmless, RunsGoOn, Running
<1>5. ASSUME NEW w \in Workers, NEW p \in Posts, NEW t \in Tokens,
             CrashHoldingLease(w, p, t)
      PROVE  Harmless
  BY <1>1, <1>2, <1>5 DEF CrashHoldingLease, Harmless
<1>6. QED
  BY <1>3, <1>4, <1>5 DEF FaultStep

LEMMA TickIsHarmless == ASSUME SafetyInv, Tick PROVE Harmless
<1> DEFINE d(p) == IF posts[p].delay > 0 THEN posts[p].delay - 1 ELSE 0
           a(p) == IF posts[p].status = "posting" /\ posts[p].age <= StaleTicks
                   THEN posts[p].age + 1 ELSE posts[p].age
<1>1. posts' = [p \in Posts |-> [posts[p] EXCEPT !.delay = d(p), !.age = a(p)]]
  BY DEF Tick
<1>2. \A p \in Posts : d(p) \in Nat /\ a(p) \in Nat
  BY ConstantsAssumption DEF SafetyInv, TypeInv, TypeOK, Row
<1> HIDE DEF d, a
<1>3. \A p \in Posts : posts'[p].status = posts[p].status
  <2> SUFFICES ASSUME NEW p \in Posts PROVE posts'[p].status = posts[p].status
    OBVIOUS
  <2>1. posts[p] \in Row
    BY DEF SafetyInv, TypeInv, TypeOK
  <2>2. [posts[p] EXCEPT !.delay = d(p), !.age = a(p)].status = posts[p].status
    BY <1>2, <2>1, SetDelay
  <2>3. QED
    BY <1>1, <2>2
<1>4. QED
  BY <1>3 DEF Tick, ghostVars, Harmless, RunsGoOn, Running, RowsHandedOut

-----------------------------------------------------------------------------
(* The two steps that do matter. *)

\* What a claim does to the runs and the rows.
LEMMA ClaimEffect ==
    ASSUME SafetyInv, NEW w \in Workers, NEW m \in queue, StartPublish(w, m)
    PROVE  /\ m.post \in Posts /\ posts[m.post].status = "pending"
           /\ ~Running(w)
           /\ posts'[m.post].status = "posting"
           /\ \A q \in Posts \ {m.post} : posts'[q] = posts[q]
           /\ worker'[w].pc = "uploading" /\ worker'[w].msg = m
           /\ worker'[w].todo = posts[m.post].platforms
           /\ worker'[w].handout = handouts[m.post]
           /\ \A v \in Workers \ {w} : worker'[v] = worker[v]
           /\ claims' = claims \cup {<<m.post, handouts[m.post]>>}
           /\ handouts' = handouts /\ uploaded' = uploaded
<1> USE DEF SafetyInv, TypeInv, TypeOK
<1>1. m.post \in Posts /\ posts[m.post].status = "pending"
  BY DEF StartPublish, Claimable, Message
<1>2. ~Running(w)
  BY IdleTyped DEF StartPublish, Running
<1>3. /\ [posts[m.post] EXCEPT !.status = "posting", !.age = 0] \in Row
      /\ [posts[m.post] EXCEPT !.status = "posting", !.age = 0].status = "posting"
  BY <1>1, SetStatus DEF Status
<1>4. posts'[m.post].status = "posting"
  BY <1>1, <1>3 DEF StartPublish
<1>5. \A q \in Posts \ {m.post} : posts'[q] = posts[q]
  BY <1>1 DEF StartPublish
<1> DEFINE x == [Idle EXCEPT !.pc = "uploading", !.msg = m,
                             !.todo = posts[m.post].platforms,
                             !.handout = handouts[m.post]]
<1>6. /\ x.pc = "uploading" /\ x.msg = m
      /\ x.todo = posts[m.post].platforms /\ x.handout = handouts[m.post]
  BY DEF Idle
<1>7. worker' = [worker EXCEPT ![w] = x]
  BY DEF StartPublish
<1> HIDE DEF x
<1>8. worker'[w] = x /\ \A v \in Workers \ {w} : worker'[v] = worker[v]
  BY <1>7
<1>9. /\ claims' = claims \cup {<<m.post, handouts[m.post]>>}
      /\ handouts' = handouts /\ uploaded' = uploaded
  BY DEF StartPublish
<1>10. QED
  BY <1>1, <1>2, <1>4, <1>5, <1>6, <1>8, <1>9

\* What an upload does to the runs and the copies.
LEMMA UploadEffect ==
    ASSUME SafetyInv, NEW w \in Workers, NEW pl \in Platforms,
           NEW landed \in BOOLEAN, NEW good \in BOOLEAN,
           Upload(w, pl, landed, good)
    PROVE  /\ Running(w) /\ pl \in worker[w].todo
           /\ worker'[w].pc = "uploading"
           /\ worker'[w].msg = worker[w].msg
           /\ worker'[w].todo = worker[w].todo \ {pl}
           /\ worker'[w].handout = worker[w].handout
           /\ \A v \in Workers \ {w} : worker'[v] = worker[v]
           /\ \/ uploaded' = uploaded
              \/ uploaded' = uploaded \cup
                    {[post |-> worker[w].msg.post, platform |-> pl,
                      handout |-> worker[w].handout]}
           /\ UNCHANGED <<posts, handouts, claims>>
<1> USE DEF SafetyInv, TypeInv, TypeOK
<1> DEFINE x == [worker[w] EXCEPT
                   !.todo = worker[w].todo \ {pl},
                   !.ok   = worker[w].ok \cup (IF good THEN {pl} ELSE {}),
                   !.bad  = worker[w].bad \cup (IF good THEN {} ELSE {pl})]
<1>1. Running(w) /\ pl \in worker[w].todo
  BY DEF Upload, Running
<1>2. /\ x.pc = worker[w].pc /\ x.msg = worker[w].msg
      /\ x.todo = worker[w].todo \ {pl} /\ x.handout = worker[w].handout
  BY DEF WorkerState
<1>3. worker' = [worker EXCEPT ![w] = x]
  BY DEF Upload
<1> HIDE DEF x
<1>4. worker'[w] = x /\ \A v \in Workers \ {w} : worker'[v] = worker[v]
  BY <1>3
<1>5. /\ \/ uploaded' = uploaded
         \/ uploaded' = uploaded \cup
               {[post |-> worker[w].msg.post, platform |-> pl,
                 handout |-> worker[w].handout]}
      /\ UNCHANGED <<posts, handouts, claims>>
  BY DEF Upload, dbVars
<1>6. QED
  BY <1>1, <1>2, <1>4, <1>5 DEF Running

LEMMA ClaimKeepsSafety ==
    ASSUME SafetyInv, TypeInv', NEW w \in Workers, NEW m \in queue,
           StartPublish(w, m)
    PROVE  SafetyInv'
<1> USE DEF SafetyInv
<1> DEFINE p == m.post
           n == handouts[p]
<1>0. p \in Posts /\ n \in Nat
  BY ClaimEffect DEF TypeInv, TypeOK
<1>1. <<p, n>> \notin claims
  BY ClaimEffect DEF ClaimsAreTracked
<1>2. \A v \in Workers : Running(v) /\ worker[v].msg.post = p
                            => worker[v].handout # n
  BY <1>1 DEF ClaimsAreTracked
<1>3. \A c \in uploaded : ~(c.post = p /\ c.handout = n)
  BY <1>1 DEF ClaimsAreTracked
<1>4. ClaimsAreTracked'
  <2>1. ASSUME NEW q \in Posts, posts'[q].status = "pending"
        PROVE  <<q, handouts'[q]>> \notin claims'
    BY <2>1, ClaimEffect DEF ClaimsAreTracked
  <2>2. ASSUME NEW q \in Posts, posts'[q].status = "absent"
        PROVE  handouts'[q] = 0
    BY <2>2, ClaimEffect DEF ClaimsAreTracked
  <2>3. ASSUME NEW q \in Posts, NEW k \in Nat, <<q, k>> \in claims'
        PROVE  k <= handouts'[q]
    BY <1>0, <2>3, ClaimEffect DEF ClaimsAreTracked
  <2>4. ASSUME NEW v \in Workers, Running(v)'
        PROVE  <<worker'[v].msg.post, worker'[v].handout>> \in claims'
    <3>1. CASE v = w
      BY <3>1, ClaimEffect
    <3>2. CASE v # w
      BY <2>4, <3>2, ClaimEffect DEF ClaimsAreTracked, Running
    <3>3. QED
      BY <3>1, <3>2
  <2>5. \A c \in uploaded' : <<c.post, c.handout>> \in claims'
    BY ClaimEffect DEF ClaimsAreTracked
  <2>6. QED
    BY <2>1, <2>2, <2>3, <2>4, <2>5 DEF ClaimsAreTracked
<1>5. OneRunPerHandout'
  BY <1>2, ClaimEffect DEF OneRunPerHandout, Running
<1>6. NoSecondCopyPerHandout'
  <2>1. ASSUME NEW v \in Workers, Running(v)', NEW pl \in worker'[v].todo
        PROVE  [post |-> worker'[v].msg.post, platform |-> pl,
                handout |-> worker'[v].handout] \notin uploaded
    <3>1. CASE v = w
      BY <1>3, <3>1, ClaimEffect
    <3>2. CASE v # w
      BY <2>1, <3>2, ClaimEffect DEF NoSecondCopyPerHandout, Running
    <3>3. QED
      BY <3>1, <3>2
  <2>2. QED
    BY <2>1, ClaimEffect DEF NoSecondCopyPerHandout
<1>7. QED
  BY <1>4, <1>5, <1>6

LEMMA UploadKeepsSafety ==
    ASSUME SafetyInv, TypeInv', NEW w \in Workers, NEW pl \in Platforms,
           NEW landed \in BOOLEAN, NEW good \in BOOLEAN,
           Upload(w, pl, landed, good)
    PROVE  SafetyInv'
<1> USE DEF SafetyInv
<1> DEFINE copy == [post |-> worker[w].msg.post, platform |-> pl,
                    handout |-> worker[w].handout]
<1>1. \A v \in Workers : /\ Running(v)' <=> Running(v)
                         /\ worker'[v].msg = worker[v].msg
                         /\ worker'[v].handout = worker[v].handout
  BY UploadEffect DEF Running
<1>2. ClaimsAreTracked'
  <2>1. \A c \in uploaded' : <<c.post, c.handout>> \in claims
    <3>1. <<copy.post, copy.handout>> \in claims
      BY UploadEffect DEF ClaimsAreTracked
    <3>2. uploaded' = uploaded \/ uploaded' = uploaded \cup {copy}
      BY UploadEffect
    <3> HIDE DEF copy
    <3>3. QED
      BY <3>1, <3>2 DEF ClaimsAreTracked
  <2>2. QED
    BY <1>1, <2>1, UploadEffect DEF ClaimsAreTracked
<1>3. OneRunPerHandout'
  BY <1>1 DEF OneRunPerHandout
<1>4. NoSecondCopyPerHandout'
  <2>1. ASSUME NEW v \in Workers, Running(v)', NEW q \in worker'[v].todo
        PROVE  [post |-> worker'[v].msg.post, platform |-> q,
                handout |-> worker'[v].handout] \notin uploaded'
    <3> DEFINE other == [post |-> worker[v].msg.post, platform |-> q,
                         handout |-> worker[v].handout]
    <3>1. q \in worker[v].todo
      BY <2>1, UploadEffect
    <3>2. other \notin uploaded
      BY <1>1, <2>1, <3>1 DEF NoSecondCopyPerHandout
    <3>3. other # copy
      <4>1. CASE v = w
        BY <2>1, <4>1, UploadEffect
      <4>2. CASE v # w
        BY <1>1, <2>1, <4>2, UploadEffect DEF OneRunPerHandout
      <4>3. QED
        BY <4>1, <4>2
    <3>4. QED
      BY <1>1, <3>2, <3>3, UploadEffect
  <2>2. QED
    BY <2>1 DEF NoSecondCopyPerHandout
<1>5. QED
  BY <1>2, <1>3, <1>4

-----------------------------------------------------------------------------

LEMMA InitSafety == Init => SafetyInv
<1> SUFFICES ASSUME Init PROVE SafetyInv
  OBVIOUS
<1>1. \A w \in Workers : ~Running(w)
  BY IdleTyped DEF Init, Running
<1>2. \A p \in Posts : posts[p].status = "absent"
  BY DEF Init, EmptyRow
<1>3. ClaimsAreTracked
  BY <1>1, <1>2 DEF Init, ClaimsAreTracked
<1>4. QED
  BY <1>1, <1>3, InitTypeInv
  DEF SafetyInv, OneRunPerHandout, NoSecondCopyPerHandout

\* Every step is harmless, a claim or an upload.
LEMMA StepKinds ==
    ASSUME SafetyInv, [Next]_vars
    PROVE  \/ Harmless
           \/ \E w \in Workers, m \in queue : StartPublish(w, m)
           \/ \E w \in Workers, pl \in Platforms, landed, good \in BOOLEAN :
                 Upload(w, pl, landed, good)
<1>1. ASSUME UNCHANGED vars
      PROVE  Harmless
  BY <1>1 DEF vars, Harmless, RunsGoOn, Running, RowsHandedOut
<1>2. ASSUME NEW w \in Workers, PublishStep(w)
      PROVE  \/ Harmless
             \/ \E m \in queue : StartPublish(w, m)
             \/ \E pl \in Platforms, landed, good \in BOOLEAN :
                   Upload(w, pl, landed, good)
  BY <1>2, PublishIsHarmless DEF PublishStep
<1>3. QED
  BY <1>1, <1>2, UserStepIsHarmless, DispatchIsHarmless, FaultIsHarmless,
     TickIsHarmless DEF Next

LEMMA StepSafety == SafetyInv /\ [Next]_vars => SafetyInv'
<1> SUFFICES ASSUME SafetyInv, [Next]_vars PROVE SafetyInv'
  OBVIOUS
<1>1. TypeInv'
  BY StepTypeInv DEF SafetyInv
<1>2. QED
  BY <1>1, StepKinds, HarmlessKeepsSafety, ClaimKeepsSafety, UploadKeepsSafety

LEMMA AlwaysSafe == Spec => []SafetyInv
BY InitSafety, StepSafety, PTL DEF Spec

\* No two workers ever publish the same handout of a post, however many
\* workers, messages, leases, requests and crashes there are.
THEOREM OneRunCorrect == Spec => []OneRunPerHandout
<1>1. SafetyInv => OneRunPerHandout
  BY DEF SafetyInv
<1>2. QED
  BY <1>1, AlwaysSafe, PTL

\* No platform gets two copies of a post from one handout.
THEOREM NoSecondCopyCorrect == Spec => []NoSecondCopyPerHandout
<1>1. SafetyInv => NoSecondCopyPerHandout
  BY DEF SafetyInv
<1>2. QED
  BY <1>1, AlwaysSafe, PTL

-----------------------------------------------------------------------------
(* SocialPublisher implements PublishOnce.                                   *)

\* The open attempts, spelled out before and after a step.
Attempted(v, pl) == [post |-> worker[v].msg.post, platform |-> pl,
                     handout |-> worker[v].handout]

LEMMA OpenBefore ==
    \A c : c \in OpenCopies <=>
             \E v, pl :
             v \in Workers /\ pl \in worker[v].todo /\ Running(v)
             /\ c = Attempted(v, pl)
BY DEF OpenCopies, Attempted

LEMMA OpenAfter ==
    \A c : c \in OpenCopies' <=>
             \E v, pl :
             v \in Workers /\ pl \in worker'[v].todo /\ Running(v)'
             /\ c = Attempted(v, pl)'
BY DEF OpenCopies, Attempted

LEMMA InitRefines == Init => Abstract!Init
<1> SUFFICES ASSUME Init PROVE Abstract!Init
  OBVIOUS
<1>1. \A v \in Workers : ~Running(v)
  BY IdleTyped DEF Init, Running
<1>2. OpenCopies = {}
  BY <1>1, OpenBefore
<1>3. QED
  BY <1>2 DEF Init, Abstract!Init

\* A step that hands rows out ends no run.
LEMMA HandOutOrStop ==
    ASSUME SafetyInv, [Next]_vars
    PROVE  UNCHANGED handouts \/ \A v \in Workers : Running(v) => Running(v)'
<1> USE DEF dbVars, ghostVars
<1>1. ASSUME UserStep
      PROVE  UNCHANGED worker
  BY <1>1 DEF UserStep, CreatePost, Load, CommitCancel, CommitRetry,
     CommitReschedule, CommitRetarget, CommitDelete, Abandon, Writes
<1>2. ASSUME NEW w \in Workers, StartDispatch(w)
      PROVE  \A v \in Workers : Running(v) => Running(v)'
  <2>1. ~Running(w)
    BY <1>2, IdleTyped DEF StartDispatch, Running
  <2>2. \A v \in Workers \ {w} : worker'[v] = worker[v]
    BY <1>2 DEF StartDispatch, SafetyInv, TypeInv, TypeOK
  <2>3. QED
    BY <2>1, <2>2 DEF Running
<1>3. ASSUME NEW w \in Workers, DispatchStep(w), ~StartDispatch(w)
      PROVE  UNCHANGED handouts
  BY <1>3 DEF DispatchStep, DispatchHeld, DispatchPost, DispatchFails
<1>4. ASSUME NEW w \in Workers, PublishStep(w)
      PROVE  UNCHANGED handouts
  BY <1>4 DEF PublishStep, StartPublish, SkipPublish, Upload, Record,
     RecordFails, CleanUp, Finish
<1>5. ASSUME FaultStep
      PROVE  UNCHANGED handouts
  BY <1>5 DEF FaultStep, Crash, Redeliver, CrashHoldingLease
<1>6. ASSUME Tick \/ UNCHANGED vars
      PROVE  UNCHANGED handouts
  BY <1>6 DEF Tick, vars
<1>7. QED
  BY <1>1, <1>2, <1>3, <1>4, <1>5, <1>6 DEF Next, Running

\* A harmless step hands rows out or gives attempts up.
LEMMA HarmlessRefines ==
    ASSUME SafetyInv, TypeInv', [Next]_vars, Harmless
    PROVE  Abstract!Next
<1> USE DEF SafetyInv, Harmless
<1>1. OpenCopies' \subseteq OpenCopies
  BY OpenBefore, OpenAfter DEF RunsGoOn, Attempted
<1>2. CASE UNCHANGED handouts
  <2>1. Abstract!GiveUp(OpenCopies \ OpenCopies')
    BY <1>1, <1>2 DEF Abstract!GiveUp
  <2>2. OpenCopies \ OpenCopies' \in SUBSET OpenCopies
    OBVIOUS
  <2>3. QED
    BY <2>1, <2>2 DEF Abstract!Next
<1>3. CASE \A v \in Workers : Running(v) => Running(v)'
  <2> DEFINE S == {p \in Posts : handouts'[p] = handouts[p] + 1}
  <2>1. OpenCopies' = OpenCopies
    BY <1>1, <1>3, OpenBefore, OpenAfter DEF RunsGoOn, Attempted
  <2>2. handouts' = [p \in Posts |-> IF p \in S THEN handouts[p] + 1
                                               ELSE handouts[p]]
    BY DEF RowsHandedOut, TypeInv, TypeOK
  <2>3. Abstract!HandOut(S)
    BY <2>1, <2>2 DEF Abstract!HandOut
  <2>4. S \in SUBSET Posts
    OBVIOUS
  <2>5. QED
    BY <2>3, <2>4 DEF Abstract!Next
<1>4. QED
  BY <1>2, <1>3, HandOutOrStop

LEMMA ClaimRefines ==
    ASSUME SafetyInv, NEW w \in Workers, NEW m \in queue, StartPublish(w, m)
    PROVE  Abstract!Next
<1> DEFINE p == m.post
           T == posts[p].platforms
           New == {[post |-> p, platform |-> pl, handout |-> handouts[p]] : pl \in T}
<1>1. p \in Posts /\ T \in SUBSET Platforms
  BY ClaimEffect DEF SafetyInv, TypeInv, TypeOK, Row
<1>2. <<p, handouts[p]>> \notin claims
  BY ClaimEffect DEF SafetyInv, ClaimsAreTracked
<1>3. OpenCopies' = OpenCopies \cup New
  <2>1. ASSUME NEW c, c \in OpenCopies' PROVE c \in OpenCopies \cup New
    <3>1. PICK v, pl :
             v \in Workers /\ pl \in worker'[v].todo /\ Running(v)'
             /\ c = Attempted(v, pl)'
      BY <2>1, OpenAfter
    <3>2. CASE v = w
      BY <3>1, <3>2, ClaimEffect DEF Attempted
    <3>3. CASE v # w
      BY <3>1, <3>3, ClaimEffect, OpenBefore DEF Attempted, Running
    <3>4. QED
      BY <3>2, <3>3
  <2>2. ASSUME NEW c, c \in OpenCopies PROVE c \in OpenCopies'
    <3>1. PICK v, pl :
             v \in Workers /\ pl \in worker[v].todo /\ Running(v)
             /\ c = Attempted(v, pl)
      BY <2>2, OpenBefore
    <3>2. v # w /\ worker'[v] = worker[v]
      BY <3>1, ClaimEffect
    <3>3. QED
      BY <3>1, <3>2, OpenAfter DEF Attempted, Running
  <2>3. ASSUME NEW pl \in T
        PROVE  [post |-> p, platform |-> pl, handout |-> handouts[p]] \in OpenCopies'
    BY ClaimEffect, OpenAfter DEF Attempted, Running
  <2>4. QED
    BY <2>1, <2>2, <2>3
<1>4. Abstract!Claim(p, T)
  BY <1>2, <1>3, ClaimEffect DEF Abstract!Claim
<1>5. QED
  BY <1>1, <1>4 DEF Abstract!Next

LEMMA UploadRefines ==
    ASSUME SafetyInv, NEW w \in Workers, NEW pl \in Platforms,
           NEW landed \in BOOLEAN, NEW good \in BOOLEAN,
           Upload(w, pl, landed, good)
    PROVE  Abstract!Next
<1> DEFINE copy == Attempted(w, pl)
<1>1. copy \in OpenCopies
  BY UploadEffect, OpenBefore
<1>2. \A v \in Workers : /\ Running(v)' <=> Running(v)
                         /\ worker'[v].msg = worker[v].msg
                         /\ worker'[v].handout = worker[v].handout
  BY UploadEffect DEF Running
<1>3. OpenCopies' = OpenCopies \ {copy}
  <2>1. ASSUME NEW c, c \in OpenCopies' PROVE c \in OpenCopies /\ c # copy
    <3>1. PICK v, q :
             v \in Workers /\ q \in worker'[v].todo /\ Running(v)'
             /\ c = Attempted(v, q)'
      BY <2>1, OpenAfter
    <3>2. c = Attempted(v, q) /\ Running(v)
      BY <1>2, <3>1 DEF Attempted
    <3>3. CASE v = w
      BY <3>1, <3>2, <3>3, UploadEffect, OpenBefore DEF Attempted
    <3>4. CASE v # w
      <4>1. worker[v].todo = worker'[v].todo
        BY <3>1, <3>4, UploadEffect
      <4>2. c \in OpenCopies
        BY <3>1, <3>2, <4>1, OpenBefore
      <4>3. c # copy
        BY <3>1, <3>2, <3>4, UploadEffect
        DEF SafetyInv, OneRunPerHandout, Attempted
      <4>4. QED
        BY <4>2, <4>3
    <3>5. QED
      BY <3>3, <3>4
  <2>2. ASSUME NEW c, c \in OpenCopies, c # copy PROVE c \in OpenCopies'
    <3>1. PICK v, q :
             v \in Workers /\ q \in worker[v].todo /\ Running(v)
             /\ c = Attempted(v, q)
      BY <2>2, OpenBefore
    <3>2. c = Attempted(v, q)' /\ Running(v)'
      BY <1>2, <3>1 DEF Attempted
    <3>3. q \in worker'[v].todo
      BY <2>2, <3>1, UploadEffect
    <3>4. QED
      BY <3>1, <3>2, <3>3, OpenAfter
  <2>3. QED
    BY <2>1, <2>2
<1>4. uploaded' \in {uploaded, uploaded \cup {copy}}
  BY UploadEffect DEF Attempted
<1>5. Abstract!Attempt(copy)
  BY <1>1, <1>3, <1>4, UploadEffect DEF Abstract!Attempt
<1>6. QED
  BY <1>1, <1>5 DEF Abstract!Next

LEMMA StepRefines == SafetyInv /\ [Next]_vars => [Abstract!Next]_(Abstract!vars)
<1> SUFFICES ASSUME SafetyInv, [Next]_vars PROVE Abstract!Next
  OBVIOUS
<1>1. TypeInv'
  BY StepTypeInv DEF SafetyInv
<1>2. QED
  BY <1>1, StepKinds, HarmlessRefines, ClaimRefines, UploadRefines

\* The publisher implements PublishOnce: whatever is lost, duplicated,
\* crashes or is edited, the platforms see what PublishOnce allows.
THEOREM Refinement == Spec => PublishesOncePerHandout
<1>1. QED
  BY InitRefines, StepRefines, AlwaysSafe, PTL
  DEF Spec, PublishesOncePerHandout, Abstract!Spec

-----------------------------------------------------------------------------
(* Result rows are honest.                                                   *)

\* What a run has seen succeed has been published.
Published(p, pl) == \E c \in uploaded : c.post = p /\ c.platform = pl

RunsSeeTruly ==
    \A w \in Workers : Running(w) =>
        \A pl \in worker[w].ok : Published(worker[w].msg.post, pl)

HonestInv == TypeInv /\ ResultsAreHonest /\ RunsSeeTruly

\* No run is begun, none sees another success, no row becomes "posted".
NothingReported ==
    /\ uploaded \subseteq uploaded'
    /\ \A w \in Workers : Running(w)' =>
          /\ Running(w)
          /\ worker'[w].ok = worker[w].ok
          /\ worker'[w].msg = worker[w].msg
    /\ \A p \in Posts, pl \in Platforms :
          results'[p][pl] = "posted" => results[p][pl] = "posted"

LEMMA NothingReportedIsHonest ==
    ASSUME HonestInv, NothingReported
    PROVE  ResultsAreHonest' /\ RunsSeeTruly'
<1>1. ASSUME NEW p, NEW pl, Published(p, pl)
      PROVE  Published(p, pl)'
  BY <1>1 DEF Published, NothingReported
<1>2. ResultsAreHonest'
  BY <1>1 DEF HonestInv, ResultsAreHonest, NothingReported, Published
<1>3. RunsSeeTruly'
  BY <1>1 DEF HonestInv, RunsSeeTruly, NothingReported
<1>4. QED
  BY <1>2, <1>3

LEMMA UserReportsNothing == ASSUME TypeInv, UserStep PROVE NothingReported
<1> USE DEF TypeInv, TypeOK, dbVars, ghostVars, NothingReported
<1>0. /\ "cancelled" \in Status /\ "pending" \in Status /\ "deleted" \in Status
      /\ {"cancel", "retry", "reschedule", "retarget", "delete"} \subseteq AllOps
  BY DEF Status, AllOps
<1>1. ASSUME UNCHANGED <<worker, results, uploaded>>
      PROVE  NothingReported
  BY <1>1 DEF Running
<1>2. ASSUME NEW r \in Requests, NEW d \in 0..MaxDelay, CommitRetry(r, d)
      PROVE  NothingReported
  <2>1. api[r].post \in Posts /\ UNCHANGED <<worker, uploaded>>
    BY <1>0, <1>2, WriterHasPost DEF CommitRetry, Writes
  <2>2. \A p \in Posts, pl \in Platforms :
          results'[p][pl] = "posted" => results[p][pl] = "posted"
    BY <1>2, <2>1 DEF CommitRetry
  <2>3. QED
    BY <2>1, <2>2 DEF Running
<1>3. ASSUME NEW r \in Requests, CommitDelete(r)
      PROVE  NothingReported
  <2>1. api[r].post \in Posts /\ UNCHANGED <<worker, uploaded>>
    BY <1>0, <1>3, WriterHasPost DEF CommitDelete, Writes
  <2>2. \A p \in Posts, pl \in Platforms :
          results'[p][pl] = "posted" => results[p][pl] = "posted"
    BY <1>3, <2>1 DEF CommitDelete, NoRows
  <2>3. QED
    BY <2>1, <2>2 DEF Running
<1>4. QED
  BY <1>1, <1>2, <1>3 DEF UserStep, CreatePost, Load, CommitCancel, Writes,
     CommitReschedule, CommitRetarget, Abandon

LEMMA OtherReportsNothing ==
    ASSUME TypeInv,
           \/ Tick
           \/ FaultStep
           \/ \E w \in Workers :
                 \/ DispatchStep(w)
                 \/ \E m \in queue : SkipPublish(w, m)
                 \/ RecordFails(w) \/ CleanUp(w) \/ Finish(w)
    PROVE  NothingReported
<1> USE DEF TypeInv, TypeOK, dbVars, ghostVars, NothingReported
<1>1. ASSUME UNCHANGED <<results, uploaded>>,
             \A w \in Workers : worker'[w] = worker[w] \/ ~Running(w)'
      PROVE  NothingReported
  BY <1>1 DEF Running
<1>2. ASSUME NEW w \in Workers, NEW x, x.pc # "uploading",
             worker' = [worker EXCEPT ![w] = x]
      PROVE  \A v \in Workers : worker'[v] = worker[v] \/ ~Running(v)'
  BY <1>2 DEF Running
<1>3. Idle.pc # "uploading"
  BY IdleTyped
<1>4. CASE Tick
  BY <1>1, <1>4 DEF Tick
<1>5. ASSUME NEW w \in Workers, DispatchStep(w)
      PROVE  NothingReported
  <2>1. ASSUME StartDispatch(w)
        PROVE  NothingReported
    <3>1. (IF DuePosts = {} THEN Idle
           ELSE [Idle EXCEPT !.pc = "dispatching", !.batch = DuePosts]).pc
             # "uploading"
      BY <1>3 DEF Idle
    <3>2. QED
      BY <1>1, <1>2, <2>1, <3>1 DEF StartDispatch
  <2>2. ASSUME NEW p \in Posts, DropFromBatch(w, p), p \in worker[w].batch,
               UNCHANGED <<results, uploaded>>
        PROVE  NothingReported
    <3>1. CASE worker[w].batch = {p}
      BY <1>1, <1>2, <1>3, <2>2, <3>1 DEF DropFromBatch
    <3>2. CASE worker[w].batch # {p}
      BY <2>2, <3>2 DEF DropFromBatch, Running, WorkerState
    <3>3. QED
      BY <3>1, <3>2
  <2>3. ASSUME DispatchFails(w)
        PROVE  NothingReported
    BY <1>1, <1>2, <1>3, <2>3 DEF DispatchFails
  <2>4. QED
    BY <1>5, <2>1, <2>2, <2>3 DEF DispatchStep, DispatchHeld, DispatchPost
<1>6. ASSUME NEW w \in Workers, NEW m \in queue, SkipPublish(w, m)
      PROVE  NothingReported
  BY <1>1, <1>6 DEF SkipPublish
<1>7. ASSUME NEW w \in Workers, RecordFails(w) \/ CleanUp(w)
      PROVE  NothingReported
  <2>1. [worker[w] EXCEPT !.pc = "releasing"].pc # "uploading"
    BY DEF WorkerState
  <2>2. worker' = [worker EXCEPT ![w] = [worker[w] EXCEPT !.pc = "releasing"]]
    BY <1>7 DEF RecordFails, CleanUp
  <2>3. QED
    BY <1>1, <1>2, <1>7, <2>1, <2>2 DEF RecordFails, CleanUp
<1>8. ASSUME NEW w \in Workers, Finish(w)
      PROVE  NothingReported
  BY <1>1, <1>2, <1>3, <1>8 DEF Finish
<1>9. CASE FaultStep
  <2>1. ASSUME NEW w \in Workers, Crash(w)
        PROVE  NothingReported
    BY <1>1, <1>2, <1>3, <2>1 DEF Crash
  <2>2. ASSUME NEW w \in Workers, Redeliver(w)
        PROVE  NothingReported
    BY <1>1, <2>2 DEF Redeliver
  <2>3. ASSUME NEW w \in Workers, NEW p \in Posts, NEW t \in Tokens,
               CrashHoldingLease(w, p, t)
        PROVE  NothingReported
    BY <1>1, <1>2, <1>3, <2>3 DEF CrashHoldingLease
  <2>4. QED
    BY <1>9, <2>1, <2>2, <2>3 DEF FaultStep
<1>10. QED
  BY <1>4, <1>5, <1>6, <1>7, <1>8, <1>9

\* A claim marks its rows "pending" and has seen nothing yet.
LEMMA ClaimReportsNothing ==
    ASSUME HonestInv, NEW w \in Workers, NEW m \in queue, StartPublish(w, m)
    PROVE  ResultsAreHonest' /\ RunsSeeTruly'
<1> USE DEF HonestInv, TypeInv, TypeOK
<1>1. m.post \in Posts /\ uploaded' = uploaded
  BY DEF StartPublish, Message
<1>2. \A p \in Posts, pl \in Platforms :
        results'[p][pl] = "posted" => results[p][pl] = "posted"
  BY <1>1 DEF StartPublish
<1>3. worker'[w].ok = {}
  BY DEF StartPublish, Idle
<1>4. \A v \in Workers \ {w} : worker'[v] = worker[v]
  BY DEF StartPublish
<1>5. QED
  BY <1>1, <1>2, <1>3, <1>4 DEF ResultsAreHonest, RunsSeeTruly, Running, Published

\* What an upload does to what its run has seen.
LEMMA UploadOutcome ==
    ASSUME TypeInv, NEW w \in Workers, NEW pl \in Platforms,
           NEW landed \in BOOLEAN, NEW good \in BOOLEAN,
           Upload(w, pl, landed, good)
    PROVE  /\ worker[w].pc = "uploading" /\ worker'[w].pc = "uploading"
           /\ worker'[w].msg = worker[w].msg
           /\ worker'[w].todo = worker[w].todo \ {pl}
           /\ worker'[w].ok = worker[w].ok \cup (IF good THEN {pl} ELSE {})
           /\ worker'[w].bad = worker[w].bad \cup (IF good THEN {} ELSE {pl})
           /\ \A v \in Workers \ {w} : worker'[v] = worker[v]
BY DEF Upload, TypeInv, TypeOK, WorkerState

LEMMA UploadReportsTruly ==
    ASSUME HonestInv, NEW w \in Workers, NEW pl \in Platforms,
           NEW landed \in BOOLEAN, NEW good \in BOOLEAN,
           Upload(w, pl, landed, good)
    PROVE  ResultsAreHonest' /\ RunsSeeTruly'
<1> DEFINE p == worker[w].msg.post
           copy == [post |-> p, platform |-> pl, handout |-> worker[w].handout]
<1>0. TypeInv
  BY DEF HonestInv
<1>1. /\ UNCHANGED results
      /\ uploaded' = IF landed THEN uploaded \cup {copy} ELSE uploaded
      /\ good => landed
  BY DEF Upload, dbVars
<1>2. copy.post = p /\ copy.platform = pl
  OBVIOUS
<1> HIDE DEF copy
<1>3. \A q, x : Published(q, x) => Published(q, x)'
  BY <1>1 DEF Published
<1>4. good => \E c \in uploaded' : c.post = p /\ c.platform = pl
  BY <1>1, <1>2
<1>5. ResultsAreHonest'
  BY <1>1, <1>3 DEF HonestInv, ResultsAreHonest, Published
<1>6. ASSUME NEW v \in Workers, Running(v)', NEW x \in worker'[v].ok
      PROVE  Published(worker[v].msg.post, x)'
  <2>1. CASE v = w
    <3>1. worker'[v].msg = worker[v].msg
      BY <1>0, <2>1, UploadOutcome
    <3>2. x \in worker[w].ok \/ (good /\ x = pl)
      BY <1>0, <1>6, <2>1, UploadOutcome
    <3>3. ASSUME x \in worker[w].ok PROVE Published(p, x)
      BY <1>0, <3>3, UploadOutcome DEF HonestInv, RunsSeeTruly, Running
    <3>4. \E c \in uploaded' : c.post = p /\ c.platform = x
      BY <1>3, <1>4, <3>2, <3>3 DEF Published
    <3>5. QED
      BY <2>1, <3>1, <3>4 DEF Published
  <2>2. CASE v # w
    BY <1>0, <1>3, <1>6, <2>2, UploadOutcome
    DEF HonestInv, RunsSeeTruly, Running
  <2>3. QED
    BY <2>1, <2>2
<1>7. QED
  BY <1>5, <1>6 DEF RunsSeeTruly

LEMMA RecordReportsTruly ==
    ASSUME HonestInv, NEW w \in Workers, Record(w)
    PROVE  ResultsAreHonest' /\ RunsSeeTruly'
<1> USE DEF HonestInv, TypeInv, TypeOK
<1> DEFINE p == worker[w].msg.post
<1>1. p \in Posts
  BY DEF Record, BusyHasMessage, Message
<1>2. uploaded' = uploaded
  BY DEF Record, ghostVars
<1>3. \A pl \in worker[w].ok : Published(p, pl)
  BY DEF Record, RunsSeeTruly, Running
<1>4. \A q \in Posts, pl \in Platforms :
         results'[q][pl] = "posted" =>
            results[q][pl] = "posted" \/ (q = p /\ pl \in worker[w].ok)
  <2>1. results' = [results EXCEPT ![p] =
                      [pl \in Platforms |-> OutcomeRow(w, p, pl)]]
    BY DEF Record
  <2>2. \A pl \in Platforms :
           OutcomeRow(w, p, pl) = "posted" =>
              results[p][pl] = "posted" \/ pl \in worker[w].ok
    BY DEF OutcomeRow
  <2>3. QED
    BY <1>1, <2>1, <2>2
<1>5. ResultsAreHonest'
  <2>1. ASSUME NEW q \in Posts, NEW pl \in Platforms,
               results'[q][pl] = "posted"
        PROVE  Published(q, pl)
    <3>1. CASE results[q][pl] = "posted"
      BY <3>1 DEF ResultsAreHonest, Published
    <3>2. CASE q = p /\ pl \in worker[w].ok
      BY <1>3, <3>2
    <3>3. QED
      BY <1>4, <2>1, <3>1, <3>2
  <2>2. QED
    BY <1>2, <2>1 DEF ResultsAreHonest, Published
<1>6. worker'[w].pc # "uploading"
  BY DEF Record, WorkerState
<1>7. \A v \in Workers \ {w} : worker'[v] = worker[v]
  BY DEF Record
<1>8. QED
  BY <1>2, <1>5, <1>6, <1>7 DEF RunsSeeTruly, Running, Published

LEMMA InitHonest == Init => HonestInv
<1>1. Init => ResultsAreHonest
  BY DEF Init, ResultsAreHonest, NoRows
<1>2. Init => RunsSeeTruly
  BY IdleTyped DEF Init, RunsSeeTruly, Running
<1>3. QED
  BY <1>1, <1>2, InitTypeInv DEF HonestInv

LEMMA StepHonest == HonestInv /\ [Next]_vars => HonestInv'
<1> SUFFICES ASSUME HonestInv, [Next]_vars PROVE HonestInv'
  OBVIOUS
<1>0. TypeInv /\ TypeInv'
  BY StepTypeInv DEF HonestInv
<1>1. CASE UNCHANGED vars
  BY <1>0, <1>1, NothingReportedIsHonest
  DEF vars, NothingReported, Running, HonestInv
<1>2. CASE UserStep
  BY <1>0, <1>2, UserReportsNothing, NothingReportedIsHonest DEF HonestInv
<1>3. ASSUME NEW w \in Workers, DispatchStep(w) \/ PublishStep(w)
      PROVE  HonestInv'
  <2>1. \/ NothingReported
        \/ \E m \in queue : StartPublish(w, m)
        \/ \E pl \in Platforms, landed, good \in BOOLEAN :
              Upload(w, pl, landed, good)
        \/ Record(w)
    BY <1>0, <1>3, OtherReportsNothing DEF PublishStep
  <2>2. QED
    BY <1>0, <2>1, NothingReportedIsHonest, ClaimReportsNothing,
       UploadReportsTruly, RecordReportsTruly DEF HonestInv
<1>4. CASE FaultStep \/ Tick
  BY <1>0, <1>4, OtherReportsNothing, NothingReportedIsHonest DEF HonestInv
<1>5. QED
  BY <1>1, <1>2, <1>3, <1>4 DEF Next

\* No result row ever says "posted" of a platform that did not get the post,
\* whatever runs, retries, edits and crashes overlap.
THEOREM HonestCorrect == Spec => []ResultsAreHonest
<1>1. HonestInv => ResultsAreHonest
  BY DEF HonestInv
<1>2. QED
  BY <1>1, InitHonest, StepHonest, PTL DEF Spec

-----------------------------------------------------------------------------
(* One run of a post at a time, while uploads end before their row is handed *)
(* back, users send one request at a time and nobody cancels.                *)

PromptUse ==
    /\ ~SlowUploads
    /\ "cancel" \notin ApiOps
    /\ \A r, s \in Requests : r = s

\* The row of a run is its own and is not stale, unless it was deleted.
RunsHoldRows ==
    \A w \in Workers : Running(w) =>
        /\ posts[worker[w].msg.post].status \in {"posting", "deleted"}
        /\ posts[worker[w].msg.post].status = "posting"
              => posts[worker[w].msg.post].age <= StaleTicks

\* What a request has looked at still holds when it writes: a row that is to
\* be published again has no run.
RequestsAreSafe ==
    \A r \in Requests :
        /\ api[r].op \in ApiOps \cup {"none"}
        /\ api[r].op = "retry" =>
              posts[api[r].post].status \in {"failed", "cancelled"}

PromptInv == TypeInv /\ RunsHoldRows /\ RequestsAreSafe /\ OneRunAtATime

\* What most steps do: runs go on or end, rows keep their status and result
\* rows, or are deleted, or made pending when nothing runs for them.
Kept(q) ==
    /\ posts'[q].status = posts[q].status
    /\ results'[q] = results[q]
    /\ posts'[q].platforms = posts[q].platforms \/ "retarget" \in ApiOps
Freed(q) ==
    \/ posts'[q].status = "deleted"
    \/ /\ posts'[q].status = "pending" /\ posts[q].status # "posted"
       /\ \A w \in Workers : Running(w) => worker[w].msg.post # q
RunKept(w) ==
    /\ Running(w)
    /\ worker'[w].msg = worker[w].msg /\ worker'[w].todo = worker[w].todo
    /\ worker'[w].ok = worker[w].ok /\ worker'[w].bad = worker[w].bad
InTime(w) ==
    posts'[worker[w].msg.post].status = "posting"
        => posts'[worker[w].msg.post].age <= StaleTicks
Quiet ==
    /\ \A w \in Workers : Running(w)' => RunKept(w)
    /\ \A w \in Workers : Running(w) => InTime(w)
    /\ \A q \in Posts : Kept(q) \/ Freed(q)

LEMMA RunHasPost ==
    ASSUME TypeInv, NEW w \in Workers, Running(w)
    PROVE  worker[w].msg \in Message /\ worker[w].msg.post \in Posts
BY DEF TypeInv, TypeOK, BusyHasMessage, Running, Message

LEMMA QuietKeepsRuns ==
    ASSUME PromptInv, Quiet
    PROVE  RunsHoldRows' /\ OneRunAtATime'
<1>1. RunsHoldRows'
  <2> SUFFICES ASSUME NEW w \in Workers, Running(w)'
               PROVE  /\ posts'[worker'[w].msg.post].status
                           \in {"posting", "deleted"}
                      /\ posts'[worker'[w].msg.post].status = "posting"
                           => posts'[worker'[w].msg.post].age <= StaleTicks
    BY DEF RunsHoldRows
  <2>1. Running(w) /\ worker'[w].msg = worker[w].msg /\ InTime(w)
    BY DEF Quiet, RunKept
  <2>2. worker[w].msg.post \in Posts
    BY <2>1, RunHasPost DEF PromptInv
  <2>3. posts'[worker[w].msg.post].status \in {"posting", "deleted"}
    BY <2>1, <2>2 DEF Quiet, Kept, Freed, PromptInv, RunsHoldRows
  <2>4. QED
    BY <2>1, <2>3 DEF InTime
<1>2. OneRunAtATime'
  BY DEF PromptInv, OneRunAtATime, Quiet, RunKept
<1>3. QED
  BY <1>1, <1>2

\* Rows that did not change, or changed their schedule.
LEMMA SameRuns ==
    ASSUME PromptInv, UNCHANGED worker,
           \A q \in Posts : Kept(q) \/ Freed(q),
           \A q \in Posts : posts'[q].status = "posting"
              => posts'[q].age = posts[q].age \/ posts'[q].age = 0
    PROVE  Quiet
<1>1. \A w \in Workers : Running(w)' => RunKept(w)
  BY DEF Running, RunKept
<1>2. ASSUME NEW w \in Workers, Running(w)
      PROVE  InTime(w)
  <2> DEFINE q == worker[w].msg.post
  <2>1. q \in Posts
    BY <1>2, RunHasPost DEF PromptInv
  <2>2. ASSUME posts'[q].status = "posting" PROVE posts'[q].age <= StaleTicks
    <3>1. posts[q].status = "posting"
      BY <2>1, <2>2 DEF Kept, Freed
    <3>2. posts[q].age <= StaleTicks
      BY <1>2, <3>1 DEF PromptInv, RunsHoldRows
    <3>3. QED
      BY <2>1, <2>2, <3>2, ConstantsAssumption
  <2>3. QED
    BY <2>2 DEF InTime
<1>3. QED
  BY <1>1, <1>2 DEF Quiet

\* The fields of a row after each kind of edit.
LEMMA RowEdits ==
    ASSUME NEW x \in Row, NEW d \in Nat, NEW a \in Nat, NEW s \in Status,
           NEW S \in SUBSET Platforms
    PROVE  /\ [x EXCEPT !.delay = d, !.age = a].status = x.status
           /\ [x EXCEPT !.delay = d, !.age = a].age = a
           /\ [x EXCEPT !.delay = d, !.age = a].platforms = x.platforms
           /\ [x EXCEPT !.status = s, !.age = a].status = s
           /\ [x EXCEPT !.status = s, !.age = a].age = a
           /\ [x EXCEPT !.status = s, !.age = a].platforms = x.platforms
           /\ [x EXCEPT !.status = s, !.delay = d, !.age = a].status = s
           /\ [x EXCEPT !.platforms = S, !.age = a].status = x.status
           /\ [x EXCEPT !.platforms = S, !.age = a].age = a
BY DEF Row

\* After a request has written, none is left that relies on a row.
LEMMA WriterLeavesNone ==
    ASSUME PromptUse, PromptInv, NEW r \in Requests, NEW op, Writes(r, op)
    PROVE  RequestsAreSafe'
BY DEF PromptUse, PromptInv, TypeInv, TypeOK, RequestsAreSafe, Writes, NoReq

LEMMA NoRunOn ==
    ASSUME PromptInv, NEW q \in Posts,
           posts[q].status \notin {"posting", "deleted"}
    PROVE  \A w \in Workers : Running(w) => worker[w].msg.post # q
BY DEF PromptInv, RunsHoldRows

LEMMA UserIsQuiet ==
    ASSUME PromptUse, PromptInv, UserStep
    PROVE  Quiet /\ RequestsAreSafe'
<1> USE DEF dbVars, ghostVars
<1>0. /\ TypeInv /\ posts \in [Posts -> Row] /\ 0 \in Nat
      /\ "pending" \in Status /\ "deleted" \in Status
      /\ {"cancel", "retry", "reschedule", "retarget", "delete"} \subseteq AllOps
  BY DEF PromptInv, TypeInv, TypeOK, Status, AllOps
<1>1. ASSUME NEW p \in Posts, NEW kind \in Kinds, NEW d \in 0..MaxDelay,
             NEW S \in (SUBSET Platforms) \ {{}}, NEW u \in Uploads,
             CreatePost(p, kind, d, S, u)
      PROVE  Quiet /\ RequestsAreSafe'
  <2>1. posts[p].status = "absent" /\ posts'[p].status = "pending"
    BY <1>0, <1>1 DEF CreatePost
  <2>2. \A q \in Posts \ {p} : posts'[q] = posts[q]
    BY <1>0, <1>1 DEF CreatePost
  <2>3. UNCHANGED <<worker, results, api>>
    BY <1>1 DEF CreatePost
  <2>4. \A q \in Posts : Kept(q) \/ Freed(q)
    BY <2>1, <2>2, <2>3, NoRunOn DEF Kept, Freed
  <2>5. Quiet
    BY <2>1, <2>2, <2>3, <2>4, SameRuns
  <2>6. RequestsAreSafe'
    <3> SUFFICES ASSUME NEW r \in Requests
                 PROVE  /\ api[r].op \in ApiOps \cup {"none"}
                        /\ api[r].op = "retry" =>
                             posts'[api[r].post].status \in {"failed", "cancelled"}
      BY <2>3 DEF RequestsAreSafe
    <3>1. api[r].op = "retry" => api[r].post \in Posts \ {p}
      BY <1>0, <2>1 DEF PromptInv, RequestsAreSafe, TypeInv, TypeOK, NoReq,
         Request
    <3>2. QED
      BY <2>2, <3>1 DEF PromptInv, RequestsAreSafe
  <2>7. QED
    BY <2>5, <2>6
<1>2. ASSUME UNCHANGED <<posts, results, worker>>
      PROVE  Quiet
  BY <1>2, SameRuns DEF Kept
<1>3. ASSUME NEW r \in Requests, NEW op \in AllOps, NEW p \in Posts,
             Load(r, op, p)
      PROVE  Quiet /\ RequestsAreSafe'
  <2>1. UNCHANGED <<posts, results, worker>>
    BY <1>3 DEF Load
  <2>2. op = "retry" => posts[p].status \in {"failed", "cancelled"}
    BY <1>3 DEF Load, MayLoad
  <2>3. op \in ApiOps
    BY <1>3 DEF Load
  <2>4. api' = [api EXCEPT ![r] =
                  [op |-> op, post |-> p,
                   rows |-> {pl \in Platforms : results[p][pl] # "none"}]]
    BY <1>3 DEF Load
  <2>5. api'[r].op = op /\ api'[r].post = p
        /\ \A s \in Requests \ {r} : api'[s] = api[s]
    BY <1>0, <2>4 DEF TypeInv, TypeOK
  <2>6. RequestsAreSafe'
    BY <2>1, <2>2, <2>3, <2>5 DEF PromptInv, RequestsAreSafe
  <2>7. QED
    BY <1>2, <2>1, <2>6
<1>4. ASSUME NEW r \in Requests, Abandon(r)
      PROVE  Quiet /\ RequestsAreSafe'
  <2>1. RequestsAreSafe'
    BY <1>4 DEF Abandon, PromptInv, RequestsAreSafe, NoReq, TypeInv, TypeOK
  <2>2. QED
    BY <1>2, <1>4, <2>1 DEF Abandon
<1>5. ASSUME NEW r \in Requests, CommitCancel(r)
      PROVE  FALSE
  BY <1>5 DEF CommitCancel, Writes, PromptUse, PromptInv, RequestsAreSafe
<1>6. ASSUME NEW r \in Requests, NEW op \in AllOps, Writes(r, op)
      PROVE  /\ api[r].post \in Posts /\ posts[api[r].post] \in Row
             /\ api[r].op = op /\ UNCHANGED worker /\ RequestsAreSafe'
             /\ op = "retry" => posts[api[r].post].status
                                   \in {"failed", "cancelled"}
  BY <1>0, <1>6, WriterHasPost, WriterLeavesNone
  DEF Writes, PromptInv, TypeInv, RequestsAreSafe
<1>7. ASSUME NEW r \in Requests, NEW d \in 0..MaxDelay, CommitRetry(r, d)
      PROVE  Quiet /\ RequestsAreSafe'
  <2> DEFINE p == api[r].post
  <2>0. /\ p \in Posts /\ posts[p] \in Row /\ UNCHANGED worker
        /\ RequestsAreSafe' /\ posts[p].status \in {"failed", "cancelled"}
    BY <1>0, <1>6, <1>7 DEF CommitRetry
  <2>1. d \in Nat
    BY ConstantsAssumption
  <2>2. [posts[p] EXCEPT !.status = "pending", !.delay = d, !.age = 0].status
          = "pending"
    BY <1>0, <2>0, <2>1, RowEdits
  <2>3. posts'[p].status = "pending"
    BY <1>0, <1>7, <2>0, <2>2 DEF CommitRetry
  <2>4. \A q \in Posts \ {p} : posts'[q] = posts[q] /\ results'[q] = results[q]
    BY <1>0, <1>7, <2>0 DEF CommitRetry, TypeInv, TypeOK
  <2>5. \A q \in Posts : Kept(q) \/ Freed(q)
    BY <2>0, <2>3, <2>4, NoRunOn DEF Kept, Freed
  <2>6. QED
    BY <2>0, <2>3, <2>4, <2>5, SameRuns
<1>8. ASSUME NEW r \in Requests, NEW d \in 0..MaxDelay, CommitReschedule(r, d)
      PROVE  Quiet /\ RequestsAreSafe'
  <2> DEFINE p == api[r].post
  <2>0. /\ p \in Posts /\ posts[p] \in Row /\ UNCHANGED worker
        /\ RequestsAreSafe'
    BY <1>0, <1>6, <1>8 DEF CommitReschedule
  <2>1. d \in Nat
    BY ConstantsAssumption
  <2> DEFINE x == [posts[p] EXCEPT !.delay = d, !.age = 0]
  <2>2. /\ x.status = posts[p].status /\ x.age = 0
        /\ x.platforms = posts[p].platforms
    BY <1>0, <2>0, <2>1, RowEdits
  <2>3. posts' = [posts EXCEPT ![p] = x] /\ results' = results
    BY <1>8 DEF CommitReschedule
  <2> HIDE DEF x
  <2>4. posts'[p] = x /\ \A q \in Posts \ {p} : posts'[q] = posts[q]
    BY <1>0, <2>0, <2>3
  <2>5. \A q \in Posts : Kept(q)
    BY <2>2, <2>3, <2>4 DEF Kept
  <2>6. QED
    BY <2>0, <2>2, <2>4, <2>5, SameRuns
<1>9. ASSUME NEW r \in Requests, NEW S \in (SUBSET Platforms) \ {{}},
             CommitRetarget(r, S)
      PROVE  Quiet /\ RequestsAreSafe'
  <2> DEFINE p == api[r].post
  <2>0. /\ p \in Posts /\ posts[p] \in Row /\ UNCHANGED worker
        /\ RequestsAreSafe' /\ api[r].op = "retarget"
    BY <1>0, <1>6, <1>9 DEF CommitRetarget
  <2>1. "retarget" \in ApiOps
    BY <2>0 DEF PromptInv, RequestsAreSafe
  <2> DEFINE x == [posts[p] EXCEPT !.platforms = S, !.age = 0]
  <2>2. x.status = posts[p].status /\ x.age = 0
    BY <1>0, <2>0, RowEdits
  <2>3. posts' = [posts EXCEPT ![p] = x] /\ results' = results
    BY <1>9 DEF CommitRetarget
  <2> HIDE DEF x
  <2>4. posts'[p] = x /\ \A q \in Posts \ {p} : posts'[q] = posts[q]
    BY <1>0, <2>0, <2>3
  <2>5. \A q \in Posts : Kept(q)
    BY <2>1, <2>2, <2>3, <2>4 DEF Kept
  <2>6. QED
    BY <2>0, <2>2, <2>4, <2>5, SameRuns
<1>10. ASSUME NEW r \in Requests, CommitDelete(r)
       PROVE  Quiet /\ RequestsAreSafe'
  <2> DEFINE p == api[r].post
  <2>0. /\ p \in Posts /\ posts[p] \in Row /\ UNCHANGED worker
        /\ RequestsAreSafe'
    BY <1>0, <1>6, <1>10 DEF CommitDelete
  <2>2. [posts[p] EXCEPT !.status = "deleted", !.delay = 0, !.age = 0].status
          = "deleted"
    BY <1>0, <2>0, RowEdits
  <2>3. posts'[p].status = "deleted"
    BY <1>0, <1>10, <2>0, <2>2 DEF CommitDelete
  <2>4. \A q \in Posts \ {p} : posts'[q] = posts[q] /\ results'[q] = results[q]
    BY <1>0, <1>10, <2>0 DEF CommitDelete, TypeInv, TypeOK
  <2>5. \A q \in Posts : Kept(q) \/ Freed(q)
    BY <2>3, <2>4 DEF Kept, Freed
  <2>6. QED
    BY <2>0, <2>3, <2>4, <2>5, SameRuns
<1>11. QED
  BY <1>1, <1>3, <1>4, <1>5, <1>7, <1>8, <1>9, <1>10 DEF UserStep

\* A step that leaves rows and requests alone and begins no run.
LEMMA RowsStay ==
    ASSUME PromptInv, UNCHANGED <<posts, results, api>>,
           \A w \in Workers : Running(w)' => RunKept(w)
    PROVE  Quiet /\ RequestsAreSafe'
<1>1. \A w \in Workers : Running(w) => InTime(w)
  BY DEF PromptInv, RunsHoldRows, InTime
<1>2. QED
  BY <1>1 DEF Quiet, Kept, PromptInv, RequestsAreSafe

LEMMA OneWorker ==
    ASSUME TypeInv, NEW w \in Workers, NEW x, x.pc # "uploading",
           worker' = [worker EXCEPT ![w] = x]
    PROVE  \A v \in Workers : Running(v)' => RunKept(v)
BY DEF TypeInv, TypeOK, Running, RunKept

LEMMA RowsStayQuiet ==
    ASSUME PromptInv,
           \/ FaultStep
           \/ \E w \in Workers :
                 \/ DispatchStep(w) /\ ~StartDispatch(w)
                 \/ \E m \in queue : SkipPublish(w, m)
                 \/ RecordFails(w) \/ CleanUp(w) \/ Finish(w)
    PROVE  Quiet /\ RequestsAreSafe'
<1> USE DEF dbVars, ghostVars
<1>0. TypeInv /\ Idle.pc # "uploading"
  BY IdleTyped DEF PromptInv
<1>1. ASSUME UNCHANGED worker
      PROVE  \A v \in Workers : Running(v)' => RunKept(v)
  BY <1>1 DEF Running, RunKept
<1>2. ASSUME NEW w \in Workers, DispatchStep(w), ~StartDispatch(w)
      PROVE  Quiet /\ RequestsAreSafe'
  <2>1. ASSUME NEW p \in Posts, DropFromBatch(w, p), p \in worker[w].batch
        PROVE  \A v \in Workers : Running(v)' => RunKept(v)
    <3>1. CASE worker[w].batch = {p}
      BY <1>0, <2>1, <3>1, OneWorker DEF DropFromBatch
    <3>2. CASE worker[w].batch # {p}
      BY <1>0, <2>1, <3>2
      DEF DropFromBatch, Running, RunKept, TypeInv, TypeOK, WorkerState
    <3>3. QED
      BY <3>1, <3>2
  <2>2. CASE DispatchFails(w)
    BY <1>0, <2>2, OneWorker, RowsStay DEF DispatchFails
  <2>3. QED
    BY <1>2, <2>1, <2>2, RowsStay DEF DispatchStep, DispatchHeld, DispatchPost
<1>3. ASSUME NEW w \in Workers, NEW m \in queue, SkipPublish(w, m)
      PROVE  Quiet /\ RequestsAreSafe'
  BY <1>1, <1>3, RowsStay DEF SkipPublish
<1>4. ASSUME NEW w \in Workers, RecordFails(w) \/ CleanUp(w)
      PROVE  Quiet /\ RequestsAreSafe'
  <2>1. [worker[w] EXCEPT !.pc = "releasing"].pc # "uploading"
    BY <1>0 DEF TypeInv, TypeOK, WorkerState
  <2>2. worker' = [worker EXCEPT ![w] = [worker[w] EXCEPT !.pc = "releasing"]]
    BY <1>4 DEF RecordFails, CleanUp
  <2>3. QED
    BY <1>0, <1>4, <2>1, <2>2, OneWorker, RowsStay DEF RecordFails, CleanUp
<1>5. ASSUME NEW w \in Workers, Finish(w)
      PROVE  Quiet /\ RequestsAreSafe'
  BY <1>0, <1>5, OneWorker, RowsStay DEF Finish
<1>6. CASE FaultStep
  <2>1. ASSUME NEW w \in Workers, Crash(w)
        PROVE  Quiet /\ RequestsAreSafe'
    BY <1>0, <2>1, OneWorker, RowsStay DEF Crash
  <2>2. ASSUME NEW w \in Workers, Redeliver(w)
        PROVE  Quiet /\ RequestsAreSafe'
    BY <1>1, <2>2, RowsStay DEF Redeliver
  <2>3. ASSUME NEW w \in Workers, NEW p \in Posts, NEW t \in Tokens,
               CrashHoldingLease(w, p, t)
        PROVE  Quiet /\ RequestsAreSafe'
    BY <1>0, <2>3, OneWorker, RowsStay DEF CrashHoldingLease
  <2>4. QED
    BY <1>6, <2>1, <2>2, <2>3 DEF FaultStep
<1>7. QED
  BY <1>2, <1>3, <1>4, <1>5, <1>6

\* A tick of Beat hands back stale rows only, and those have no run.
LEMMA DispatchIsQuiet ==
    ASSUME PromptInv, NEW w \in Workers, StartDispatch(w)
    PROVE  Quiet /\ RequestsAreSafe'
<1>0. TypeInv /\ posts \in [Posts -> Row] /\ UNCHANGED <<results, api>>
  BY DEF StartDispatch, PromptInv, TypeInv, TypeOK
<1>1. \A v \in Workers : Running(v)' => RunKept(v)
  <2>1. (IF DuePosts = {} THEN Idle
         ELSE [Idle EXCEPT !.pc = "dispatching", !.batch = DuePosts]).pc
           # "uploading"
    BY IdleTyped DEF Idle
  <2>2. QED
    BY <1>0, <2>1, OneWorker DEF StartDispatch
<1>2. \A q \in Posts : ~Stale(q) => posts'[q] = posts[q]
  BY DEF StartDispatch
<1>3. \A q \in Posts : Stale(q) => posts'[q].status = "pending"
  <2>1. \A q \in Posts : [posts[q] EXCEPT !.status = "pending", !.age = 0].status
                              = "pending"
    BY <1>0 DEF Row
  <2>2. QED
    BY <2>1 DEF StartDispatch
<1>4. ASSUME NEW q \in Posts, Stale(q)
      PROVE  Freed(q)
  <2>1. \A v \in Workers : Running(v) => worker[v].msg.post # q
    BY <1>0, <1>4, ConstantsAssumption
    DEF Stale, PromptInv, RunsHoldRows, Row
  <2>2. QED
    BY <1>3, <1>4, <2>1 DEF Stale, Freed
<1>5. \A q \in Posts : Kept(q) \/ Freed(q)
  BY <1>0, <1>2, <1>4 DEF Kept
<1>6. ASSUME NEW v \in Workers, Running(v)
      PROVE  InTime(v)
  <2>1. worker[v].msg.post \in Posts
    BY <1>0, <1>6, RunHasPost
  <2>2. QED
    BY <1>2, <1>3, <1>6, <2>1 DEF InTime, PromptInv, RunsHoldRows
<1>7. RequestsAreSafe'
  <2> SUFFICES ASSUME NEW r \in Requests, api[r].op = "retry"
               PROVE  posts'[api[r].post].status \in {"failed", "cancelled"}
    BY <1>0 DEF PromptInv, RequestsAreSafe
  <2>1. api[r].post \in Posts
    BY <1>0 DEF TypeInv, TypeOK, NoReq, Request
  <2>2. QED
    BY <1>2, <2>1 DEF PromptInv, RequestsAreSafe, Stale
<1>8. QED
  BY <1>1, <1>5, <1>6, <1>7 DEF Quiet

LEMMA TickIsQuiet ==
    ASSUME PromptUse, PromptInv, Tick
    PROVE  Quiet /\ RequestsAreSafe'
<1> DEFINE d(p) == IF posts[p].delay > 0 THEN posts[p].delay - 1 ELSE 0
           a(p) == IF posts[p].status = "posting" /\ posts[p].age <= StaleTicks
                   THEN posts[p].age + 1 ELSE posts[p].age
<1>0. /\ TypeInv /\ posts \in [Posts -> Row]
      /\ UNCHANGED <<results, worker, api>>
  BY DEF Tick, PromptInv, TypeInv, TypeOK
<1>1. posts' = [p \in Posts |-> [posts[p] EXCEPT !.delay = d(p), !.age = a(p)]]
  BY DEF Tick
<1>2. \A p \in Posts : d(p) \in Nat /\ a(p) \in Nat
  BY <1>0, ConstantsAssumption DEF Row
<1>3. \A p \in Posts : a(p) <= posts[p].age + 1
  BY <1>0 DEF Row
<1> HIDE DEF d, a
<1>4. \A p \in Posts : /\ posts'[p].status = posts[p].status
                       /\ posts'[p].age = a(p)
                       /\ posts'[p].platforms = posts[p].platforms
  <2> SUFFICES ASSUME NEW p \in Posts
               PROVE  /\ posts'[p].status = posts[p].status
                      /\ posts'[p].age = a(p)
                      /\ posts'[p].platforms = posts[p].platforms
    OBVIOUS
  <2>1. posts[p] \in Row
    BY <1>0
  <2> DEFINE x == [posts[p] EXCEPT !.delay = d(p), !.age = a(p)]
  <2>2. /\ x.status = posts[p].status /\ x.age = a(p)
        /\ x.platforms = posts[p].platforms
    BY <1>2, <2>1, RowEdits
  <2>3. posts'[p] = x
    BY <1>1
  <2> HIDE DEF x
  <2>4. QED
    BY <2>2, <2>3
<1>5. ASSUME NEW w \in Workers, Running(w)
      PROVE  InTime(w)
  <2>1. worker[w].msg.post \in Posts
    BY <1>0, <1>5, RunHasPost
  <2>2. posts[worker[w].msg.post].age < StaleTicks
    BY <1>5 DEF Tick, TimeMayPass, PromptUse, Running
  <2>3. QED
    BY <1>0, <1>2, <1>3, <1>4, <2>1, <2>2, ConstantsAssumption DEF InTime, Row
<1>6. \A q \in Posts : Kept(q)
  BY <1>0, <1>4 DEF Kept
<1>7. RequestsAreSafe'
  BY <1>0, <1>4
  DEF PromptInv, RequestsAreSafe, TypeInv, TypeOK, NoReq, Request
<1>8. QED
  BY <1>0, <1>5, <1>6 , <1>7 DEF Quiet, Running, RunKept

-----------------------------------------------------------------------------
(* The three steps that are not quiet. *)

LEMMA ClaimOutcome ==
    ASSUME PromptInv, NEW w \in Workers, NEW m \in queue, StartPublish(w, m)
    PROVE  /\ m.post \in Posts /\ posts[m.post].status = "pending"
           /\ posts'[m.post].status = "posting" /\ posts'[m.post].age = 0
           /\ posts'[m.post].platforms = posts[m.post].platforms
           /\ \A q \in Posts \ {m.post} :
                 posts'[q] = posts[q] /\ results'[q] = results[q]
           /\ worker'[w].msg = m
           /\ worker'[w].todo = posts[m.post].platforms
           /\ \A v \in Workers \ {w} : worker'[v] = worker[v]
           /\ \A v \in Workers : Running(v) => worker[v].msg.post # m.post
           /\ api' = api
<1>0. TypeInv /\ posts \in [Posts -> Row] /\ 0 \in Nat
  BY DEF PromptInv, TypeInv, TypeOK
<1>1. m.post \in Posts /\ posts[m.post].status = "pending"
  BY <1>0 DEF StartPublish, Claimable, Message, TypeInv, TypeOK
<1> DEFINE x == [posts[m.post] EXCEPT !.status = "posting", !.age = 0]
<1>2. /\ x.status = "posting" /\ x.age = 0
      /\ x.platforms = posts[m.post].platforms
  BY <1>0, <1>1, RowEdits DEF Status
<1>3. posts' = [posts EXCEPT ![m.post] = x]
  BY DEF StartPublish
<1> HIDE DEF x
<1>4. posts'[m.post] = x /\ \A q \in Posts \ {m.post} : posts'[q] = posts[q]
  BY <1>0, <1>1, <1>3
<1>5. \A q \in Posts \ {m.post} : results'[q] = results[q]
  BY <1>0, <1>1 DEF StartPublish, TypeInv, TypeOK
<1>6. /\ worker'[w].msg = m /\ worker'[w].todo = posts[m.post].platforms
      /\ \A v \in Workers \ {w} : worker'[v] = worker[v]
      /\ api' = api
  BY <1>0 DEF StartPublish, Idle, TypeInv, TypeOK
<1>7. \A v \in Workers : Running(v) => worker[v].msg.post # m.post
  BY <1>1, NoRunOn
<1>8. QED
  BY <1>1, <1>2, <1>4, <1>5, <1>6, <1>7

LEMMA ClaimKeepsPrompt ==
    ASSUME PromptInv, NEW w \in Workers, NEW m \in queue, StartPublish(w, m)
    PROVE  RunsHoldRows' /\ OneRunAtATime' /\ RequestsAreSafe'
<1>1. RunsHoldRows'
  <2> SUFFICES ASSUME NEW v \in Workers, Running(v)'
               PROVE  /\ posts'[worker'[v].msg.post].status
                           \in {"posting", "deleted"}
                      /\ posts'[worker'[v].msg.post].status = "posting"
                           => posts'[worker'[v].msg.post].age <= StaleTicks
    BY DEF RunsHoldRows
  <2>1. CASE v = w
    BY <2>1, ClaimOutcome, ConstantsAssumption
  <2>2. CASE v # w
    <3>1. Running(v) /\ worker'[v] = worker[v]
      BY <2>2, ClaimOutcome DEF Running
    <3>2. worker[v].msg.post \in Posts \ {m.post}
      BY <3>1, RunHasPost, ClaimOutcome DEF PromptInv
    <3>3. QED
      BY <3>1, <3>2, ClaimOutcome DEF PromptInv, RunsHoldRows
  <2>3. QED
    BY <2>1, <2>2
<1>2. OneRunAtATime'
  <2> SUFFICES ASSUME NEW u \in Workers, NEW v \in Workers,
                      Running(u)', Running(v)', u # v,
                      worker'[u].msg.post = worker'[v].msg.post
               PROVE  FALSE
    BY DEF OneRunAtATime
  <2>1. CASE u = w
    BY <2>1, ClaimOutcome DEF Running
  <2>2. CASE v = w
    BY <2>2, ClaimOutcome DEF Running
  <2>3. CASE u # w /\ v # w
    BY <2>3, ClaimOutcome DEF Running, PromptInv, OneRunAtATime
  <2>4. QED
    BY <2>1, <2>2, <2>3
<1>3. RequestsAreSafe'
  <2> SUFFICES ASSUME NEW r \in Requests, api[r].op = "retry"
               PROVE  posts'[api[r].post].status \in {"failed", "cancelled"}
    BY ClaimOutcome DEF PromptInv, RequestsAreSafe
  <2>1. api[r].post \in Posts
    BY DEF PromptInv, TypeInv, TypeOK, NoReq, Request
  <2>2. QED
    BY <2>1, ClaimOutcome DEF PromptInv, RequestsAreSafe
<1>4. QED
  BY <1>1, <1>2, <1>3

LEMMA UploadKeepsPrompt ==
    ASSUME PromptInv, NEW w \in Workers, NEW pl \in Platforms,
           NEW landed \in BOOLEAN, NEW good \in BOOLEAN,
           Upload(w, pl, landed, good)
    PROVE  RunsHoldRows' /\ OneRunAtATime' /\ RequestsAreSafe'
<1>1. UNCHANGED <<posts, api>>
  BY DEF Upload, dbVars
<1>2. \A v \in Workers : /\ Running(v)' => Running(v)
                         /\ worker'[v].msg = worker[v].msg
  BY UploadOutcome DEF Running, PromptInv
<1>3. QED
  BY <1>1, <1>2
  DEF PromptInv, RunsHoldRows, OneRunAtATime, RequestsAreSafe

\* A run that is recorded finds its row in "posting" and decides it.
LEMMA RecordOutcome ==
    ASSUME PromptInv, NEW w \in Workers, Record(w)
    PROVE  LET p == worker[w].msg.post IN
           /\ p \in Posts /\ posts[p].status = "posting" /\ Running(w)
           /\ worker[w].todo = {}
           /\ posts'[p].status = IF AllSucceeded(w) THEN "posted" ELSE "failed"
           /\ posts'[p].platforms = posts[p].platforms
           /\ \A pl \in Platforms : results'[p][pl] = OutcomeRow(w, p, pl)
           /\ \A q \in Posts \ {p} :
                 posts'[q] = posts[q] /\ results'[q] = results[q]
           /\ ~Running(w)'
           /\ \A v \in Workers \ {w} : worker'[v] = worker[v]
           /\ api' = api
<1> DEFINE p == worker[w].msg.post
           final == IF AllSucceeded(w) THEN "posted" ELSE "failed"
<1>0. /\ TypeInv /\ posts \in [Posts -> Row] /\ 0 \in Nat
      /\ results \in [Posts -> [Platforms -> RowStatus]]
  BY DEF PromptInv, TypeInv, TypeOK
<1>1. Running(w) /\ worker[w].todo = {} /\ api' = api
  BY DEF Record, Running
<1>2. p \in Posts
  BY <1>0, <1>1, RunHasPost
<1>3. posts[p].status = "posting"
  BY <1>1 DEF Record, PromptInv, RunsHoldRows
<1>4. final \in Status
  BY DEF Status
<1> DEFINE x == [posts[p] EXCEPT !.status = final, !.age = 0]
<1>5. posts' = [posts EXCEPT ![p] = x]
  BY <1>3 DEF Record
<1> HIDE DEF final
<1>6. x.status = final /\ x.platforms = posts[p].platforms
  BY <1>0, <1>2, <1>4, RowEdits
<1> HIDE DEF x
<1>7. posts'[p] = x /\ \A q \in Posts \ {p} : posts'[q] = posts[q]
  BY <1>0, <1>2, <1>5
<1>8. /\ \A pl \in Platforms : results'[p][pl] = OutcomeRow(w, p, pl)
      /\ \A q \in Posts \ {p} : results'[q] = results[q]
  BY <1>0, <1>2 DEF Record
<1>9. ~Running(w)' /\ \A v \in Workers \ {w} : worker'[v] = worker[v]
  BY <1>0 DEF Record, Running, TypeInv, TypeOK, WorkerState
<1>10. QED
  BY <1>1, <1>2, <1>3, <1>6, <1>7, <1>8, <1>9 DEF final

LEMMA RecordKeepsPrompt ==
    ASSUME PromptInv, NEW w \in Workers, Record(w)
    PROVE  RunsHoldRows' /\ OneRunAtATime' /\ RequestsAreSafe'
<1> DEFINE p == worker[w].msg.post
<1>1. ASSUME NEW v \in Workers, Running(v)'
      PROVE  /\ Running(v) /\ worker'[v] = worker[v]
             /\ worker[v].msg.post \in Posts \ {p}
  <2>1. v # w /\ Running(v) /\ worker'[v] = worker[v]
    BY <1>1, RecordOutcome DEF Running
  <2>2. worker[v].msg.post # p
    BY <2>1, RecordOutcome DEF PromptInv, OneRunAtATime
  <2>3. QED
    BY <2>1, <2>2, RunHasPost DEF PromptInv
<1>2. RunsHoldRows'
  <2> SUFFICES ASSUME NEW v \in Workers, Running(v)'
               PROVE  /\ posts'[worker'[v].msg.post].status
                           \in {"posting", "deleted"}
                      /\ posts'[worker'[v].msg.post].status = "posting"
                           => posts'[worker'[v].msg.post].age <= StaleTicks
    BY DEF RunsHoldRows
  <2>1. QED
    BY <1>1, RecordOutcome DEF PromptInv, RunsHoldRows
<1>3. OneRunAtATime'
  BY <1>1 DEF PromptInv, OneRunAtATime
<1>4. RequestsAreSafe'
  <2> SUFFICES ASSUME NEW r \in Requests, api[r].op = "retry"
               PROVE  posts'[api[r].post].status \in {"failed", "cancelled"}
    BY RecordOutcome DEF PromptInv, RequestsAreSafe
  <2>1. api[r].post \in Posts
    BY DEF PromptInv, TypeInv, TypeOK, NoReq, Request
  <2>2. QED
    BY <2>1, RecordOutcome DEF PromptInv, RequestsAreSafe
<1>5. QED
  BY <1>2, <1>3, <1>4

\* Every step is quiet, a claim, an upload or a record.
LEMMA PromptSteps ==
    ASSUME PromptUse, PromptInv, [Next]_vars
    PROVE  \/ Quiet /\ RequestsAreSafe'
           \/ \E w \in Workers, m \in queue : StartPublish(w, m)
           \/ \E w \in Workers, pl \in Platforms, landed, good \in BOOLEAN :
                 Upload(w, pl, landed, good)
           \/ \E w \in Workers : Record(w)
<1>1. CASE UNCHANGED vars
  <2>1. \A v \in Workers : Running(v)' => RunKept(v)
    BY <1>1 DEF vars, Running, RunKept
  <2>2. QED
    BY <1>1, <2>1, RowsStay DEF vars
<1>2. ASSUME NEW w \in Workers, DispatchStep(w)
      PROVE  Quiet /\ RequestsAreSafe'
  BY <1>2, DispatchIsQuiet, RowsStayQuiet
<1>3. ASSUME NEW w \in Workers, PublishStep(w)
      PROVE  \/ Quiet /\ RequestsAreSafe'
             \/ \E m \in queue : StartPublish(w, m)
             \/ \E pl \in Platforms, landed, good \in BOOLEAN :
                   Upload(w, pl, landed, good)
             \/ Record(w)
  BY <1>3, RowsStayQuiet DEF PublishStep
<1>4. QED
  BY <1>1, <1>2, <1>3, UserIsQuiet, RowsStayQuiet, TickIsQuiet DEF Next

LEMMA StepPrompt == PromptUse /\ PromptInv /\ [Next]_vars => PromptInv'
<1> SUFFICES ASSUME PromptUse, PromptInv, [Next]_vars PROVE PromptInv'
  OBVIOUS
<1>1. TypeInv'
  BY StepTypeInv DEF PromptInv
<1>2. QED
  BY <1>1, PromptSteps, QuietKeepsRuns, ClaimKeepsPrompt, UploadKeepsPrompt,
     RecordKeepsPrompt DEF PromptInv

LEMMA InitPrompt == Init => PromptInv
<1> SUFFICES ASSUME Init PROVE PromptInv
  OBVIOUS
<1>1. \A w \in Workers : ~Running(w)
  BY IdleTyped DEF Init, Running
<1>2. RequestsAreSafe
  BY DEF Init, RequestsAreSafe, NoReq
<1>3. QED
  BY <1>1, <1>2, InitTypeInv DEF PromptInv, RunsHoldRows, OneRunAtATime

\* While uploads are prompt, nobody cancels and one request is under way at a
\* time, no two workers ever work on the same post.
THEOREM OneRunAtATimeCorrect ==
    ASSUME PromptUse
    PROVE  Spec => []OneRunAtATime
<1>1. PromptInv => OneRunAtATime
  BY DEF PromptInv
<1>2. PromptInv /\ [Next]_vars => PromptInv'
  BY StepPrompt
<1> QED
  BY <1>1, <1>2, InitPrompt, PTL DEF Spec

\* Under the same assumption a post that is posted stays posted, or is deleted.
THEOREM PostedIsFinalCorrect ==
    ASSUME PromptUse
    PROVE  Spec => PostedIsFinal
<1> DEFINE Final(p) == posts[p].status = "posted"
                          => posts'[p].status \in {"posted", "deleted"}
<1>1. ASSUME PromptInv, [Next]_vars, NEW p \in Posts
      PROVE  Final(p)
  <2>1. CASE Quiet
    BY <2>1 DEF Quiet, Kept, Freed
  <2>2. ASSUME NEW w \in Workers, NEW m \in queue, StartPublish(w, m)
        PROVE  Final(p)
    BY <1>1, <2>2, ClaimOutcome
  <2>3. ASSUME NEW w \in Workers, NEW pl \in Platforms,
               NEW landed \in BOOLEAN, NEW good \in BOOLEAN,
               Upload(w, pl, landed, good)
        PROVE  Final(p)
    BY <2>3 DEF Upload, dbVars
  <2>4. ASSUME NEW w \in Workers, Record(w)
        PROVE  Final(p)
    BY <1>1, <2>4, RecordOutcome
  <2>5. QED
    BY <1>1, <2>1, <2>2, <2>3, <2>4, PromptSteps
<1>2. PromptInv /\ [Next]_vars => [\A p \in Posts : Final(p)]_vars
  BY <1>1
<1>3. PromptInv /\ [Next]_vars => PromptInv'
  BY StepPrompt
<1> QED
  BY <1>2, <1>3, InitPrompt, PTL DEF Spec, PostedIsFinal

-----------------------------------------------------------------------------
(* "posted" means every platform, if nobody changes the targets either. *)

RunsCoverTargets ==
    \A w \in Workers :
        Running(w) /\ posts[worker[w].msg.post].status = "posting" =>
            posts[worker[w].msg.post].platforms
               \subseteq worker[w].todo \cup worker[w].ok \cup worker[w].bad

OutcomeInv == PromptInv /\ RunsCoverTargets /\ PostedMeansEveryPlatform

LEMMA QuietKeepsOutcome ==
    ASSUME "retarget" \notin ApiOps, OutcomeInv, Quiet
    PROVE  RunsCoverTargets' /\ PostedMeansEveryPlatform'
<1>1. RunsCoverTargets'
  <2> SUFFICES ASSUME NEW w \in Workers, Running(w)',
                      posts'[worker'[w].msg.post].status = "posting"
               PROVE  posts'[worker'[w].msg.post].platforms
                       \subseteq worker'[w].todo \cup worker'[w].ok
                                    \cup worker'[w].bad
    BY DEF RunsCoverTargets
  <2>1. RunKept(w)
    BY DEF Quiet
  <2>2. worker[w].msg.post \in Posts
    BY <2>1, RunHasPost DEF RunKept, OutcomeInv, PromptInv
  <2>3. Kept(worker[w].msg.post)
    BY <2>1, <2>2 DEF Quiet, RunKept, Freed
  <2>4. QED
    BY <2>1, <2>3 DEF RunKept, Kept, OutcomeInv, RunsCoverTargets
<1>2. PostedMeansEveryPlatform'
  BY DEF OutcomeInv, PostedMeansEveryPlatform, Quiet, Kept, Freed
<1>3. QED
  BY <1>1, <1>2

LEMMA ClaimKeepsOutcome ==
    ASSUME OutcomeInv, NEW w \in Workers, NEW m \in queue, StartPublish(w, m)
    PROVE  RunsCoverTargets' /\ PostedMeansEveryPlatform'
<1>0. PromptInv
  BY DEF OutcomeInv
<1>1. RunsCoverTargets'
  <2> SUFFICES ASSUME NEW v \in Workers, Running(v)',
                      posts'[worker'[v].msg.post].status = "posting"
               PROVE  posts'[worker'[v].msg.post].platforms
                       \subseteq worker'[v].todo \cup worker'[v].ok
                                    \cup worker'[v].bad
    BY DEF RunsCoverTargets
  <2>1. CASE v = w
    BY <1>0, <2>1, ClaimOutcome
  <2>2. CASE v # w
    <3>1. Running(v) /\ worker'[v] = worker[v]
      BY <1>0, <2>2, ClaimOutcome DEF Running
    <3>2. worker[v].msg.post \in Posts \ {m.post}
      BY <1>0, <3>1, RunHasPost, ClaimOutcome DEF PromptInv
    <3>3. QED
      BY <1>0, <3>1, <3>2, ClaimOutcome DEF OutcomeInv, RunsCoverTargets
  <2>3. QED
    BY <2>1, <2>2
<1>2. PostedMeansEveryPlatform'
  <2> SUFFICES ASSUME NEW q \in Posts, posts'[q].status = "posted",
                      NEW pl \in posts'[q].platforms
               PROVE  results'[q][pl] = "posted"
    BY DEF PostedMeansEveryPlatform
  <2>1. q # m.post
    BY <1>0, ClaimOutcome
  <2>2. QED
    BY <1>0, <2>1, ClaimOutcome DEF OutcomeInv, PostedMeansEveryPlatform
<1>3. QED
  BY <1>1, <1>2

LEMMA UploadKeepsOutcome ==
    ASSUME OutcomeInv, NEW w \in Workers, NEW pl \in Platforms,
           NEW landed \in BOOLEAN, NEW good \in BOOLEAN,
           Upload(w, pl, landed, good)
    PROVE  RunsCoverTargets' /\ PostedMeansEveryPlatform'
<1>0. TypeInv /\ UNCHANGED <<posts, results>>
  BY DEF Upload, dbVars, OutcomeInv, PromptInv
<1>1. ASSUME NEW v \in Workers
      PROVE  /\ Running(v)' => Running(v)
             /\ worker'[v].msg = worker[v].msg
             /\ worker'[v].todo \cup worker'[v].ok \cup worker'[v].bad
                   = worker[v].todo \cup worker[v].ok \cup worker[v].bad
  <2>1. CASE v = w
    <3>1. pl \in worker[w].todo
      BY DEF Upload
    <3>2. QED
      BY <1>0, <2>1, <3>1, UploadOutcome DEF Running
  <2>2. CASE v # w
    BY <1>0, <2>2, UploadOutcome DEF Running
  <2>3. QED
    BY <2>1, <2>2
<1>2. RunsCoverTargets'
  BY <1>0, <1>1 DEF OutcomeInv, RunsCoverTargets
<1>3. PostedMeansEveryPlatform'
  BY <1>0 DEF OutcomeInv, PostedMeansEveryPlatform
<1>4. QED
  BY <1>2, <1>3

LEMMA RecordKeepsOutcome ==
    ASSUME OutcomeInv, NEW w \in Workers, Record(w)
    PROVE  RunsCoverTargets' /\ PostedMeansEveryPlatform'
<1> DEFINE p == worker[w].msg.post
<1>0. PromptInv /\ posts \in [Posts -> Row]
  BY DEF OutcomeInv, PromptInv, TypeInv, TypeOK
<1>1. RunsCoverTargets'
  <2> SUFFICES ASSUME NEW v \in Workers, Running(v)',
                      posts'[worker'[v].msg.post].status = "posting"
               PROVE  posts'[worker'[v].msg.post].platforms
                       \subseteq worker'[v].todo \cup worker'[v].ok
                                    \cup worker'[v].bad
    BY DEF RunsCoverTargets
  <2>1. v # w /\ Running(v) /\ worker'[v] = worker[v]
    BY <1>0, RecordOutcome DEF Running
  <2>2. worker[v].msg.post \in Posts \ {p}
    BY <1>0, <2>1, RecordOutcome, RunHasPost DEF PromptInv, OneRunAtATime
  <2>3. QED
    BY <1>0, <2>1, <2>2, RecordOutcome DEF OutcomeInv, RunsCoverTargets
<1>2. PostedMeansEveryPlatform'
  <2> SUFFICES ASSUME NEW q \in Posts, posts'[q].status = "posted",
                      NEW pl \in posts'[q].platforms
               PROVE  results'[q][pl] = "posted"
    BY DEF PostedMeansEveryPlatform
  <2>1. CASE q = p
    <3>1. AllSucceeded(w) /\ pl \in posts[p].platforms
      BY <1>0, <2>1, RecordOutcome
    <3>2. pl \in worker[w].ok
      BY <1>0, <3>1, RecordOutcome
      DEF AllSucceeded, OutcomeInv, RunsCoverTargets
    <3>3. pl \in Platforms
      BY <1>0, <2>1, <3>1 DEF Row
    <3>4. QED
      BY <1>0, <2>1, <3>2, <3>3, RecordOutcome DEF OutcomeRow
  <2>2. CASE q # p
    BY <1>0, <2>2, RecordOutcome DEF OutcomeInv, PostedMeansEveryPlatform
  <2>3. QED
    BY <2>1, <2>2
<1>3. QED
  BY <1>1, <1>2

\* If nobody changes the targets of a post either, a post that is posted has
\* a "posted" result row for every platform it names.
THEOREM PostedMeansEveryPlatformCorrect ==
    ASSUME PromptUse, "retarget" \notin ApiOps
    PROVE  Spec => []PostedMeansEveryPlatform
<1>1. Init => OutcomeInv
  <2> SUFFICES ASSUME Init PROVE OutcomeInv
    OBVIOUS
  <2>1. PromptInv /\ \A w \in Workers : ~Running(w)
    BY InitPrompt, IdleTyped DEF Init, Running
  <2>2. \A p \in Posts : posts[p].status # "posted"
    BY DEF Init, EmptyRow
  <2>3. QED
    BY <2>1, <2>2 DEF OutcomeInv, RunsCoverTargets, PostedMeansEveryPlatform
<1>2. OutcomeInv /\ [Next]_vars => OutcomeInv'
  <2> SUFFICES ASSUME OutcomeInv, [Next]_vars PROVE OutcomeInv'
    OBVIOUS
  <2>1. PromptInv /\ PromptInv'
    BY StepPrompt DEF OutcomeInv
  <2>2. QED
    BY <2>1, PromptSteps, QuietKeepsOutcome, ClaimKeepsOutcome,
       UploadKeepsOutcome, RecordKeepsOutcome DEF OutcomeInv
<1>3. OutcomeInv => PostedMeansEveryPlatform
  BY DEF OutcomeInv
<1> QED
  BY <1>1, <1>2, <1>3, PTL DEF Spec

-----------------------------------------------------------------------------
(* A post that may still be published keeps its file, under the same         *)
(* conditions, while no two posts share an upload.                           *)

Exists(p) == posts[p].status \notin {"absent", "deleted"}
OwnUploads ==
    \A p, q \in Posts :
        Exists(p) /\ Exists(q) /\ posts[p].upload = posts[q].upload => p = q

\* A deleted row's file went with it, a file is cleaned up for a row that is
\* posted, and a request is about a row that was there.
FileInv ==
    /\ RetryableKeepsFile
    /\ \A p \in Posts : posts[p].status = "deleted" => ~file[posts[p].upload]
    /\ \A w \in Workers : worker[w].pc = "cleaning"
          => posts[worker[w].msg.post].status \in {"posted", "deleted"}
    /\ \A r \in Requests : api[r] # NoReq => posts[api[r].post].status # "absent"

\* What becomes of a row: it stays, changes its status, is deleted or made.
RowStays(p) == /\ posts'[p].status = posts[p].status
               /\ posts'[p].upload = posts[p].upload
RowMoves(p) == /\ Exists(p) /\ posts'[p].status \notin {"absent", "deleted"}
               /\ posts'[p].upload = posts[p].upload
RowGoes(p)  == \E r \in Requests : CommitDelete(r) /\ p = api[r].post
RowComes(p) == /\ posts[p].status = "absent" /\ posts'[p].status = "pending"
               /\ file[posts'[p].upload] /\ UNCHANGED <<file, worker, api>>
RowFate(p)  == RowStays(p) \/ RowMoves(p) \/ RowGoes(p) \/ RowComes(p)

LEMMA UploadKept ==
    ASSUME NEW x \in Row, NEW d \in Nat, NEW a \in Nat, NEW s \in Status,
           NEW S \in SUBSET Platforms
    PROVE  /\ [x EXCEPT !.delay = d, !.age = a].upload = x.upload
           /\ [x EXCEPT !.delay = d, !.age = a].status = x.status
           /\ [x EXCEPT !.status = s, !.age = a].upload = x.upload
           /\ [x EXCEPT !.status = s, !.age = a].status = s
           /\ [x EXCEPT !.status = s, !.delay = d, !.age = a].upload = x.upload
           /\ [x EXCEPT !.status = s, !.delay = d, !.age = a].status = s
           /\ [x EXCEPT !.platforms = S, !.age = a].upload = x.upload
           /\ [x EXCEPT !.platforms = S, !.age = a].status = x.status
BY DEF Row

\* One row is written.
LEMMA OneRowFate ==
    ASSUME TypeInv, NEW q \in Posts, NEW x, posts' = [posts EXCEPT ![q] = x],
           RowFate(q)
    PROVE  \A p \in Posts : RowFate(p)
BY DEF TypeInv, TypeOK, RowFate, RowStays

LEMMA WrittenRows ==
    ASSUME PromptUse, PromptInv, UserStep
    PROVE  \A p \in Posts : RowFate(p)
<1> USE DEF dbVars, ghostVars
<1>0. /\ TypeInv /\ TypeOK /\ posts \in [Posts -> Row] /\ 0 \in Nat
      /\ "pending" \in Status /\ "deleted" \in Status
      /\ {"cancel", "retry", "reschedule", "retarget", "delete"} \subseteq AllOps
  BY DEF PromptInv, TypeInv, TypeOK, Status, AllOps
<1>1. ASSUME NEW p \in Posts, NEW kind \in Kinds, NEW d \in 0..MaxDelay,
             NEW S \in (SUBSET Platforms) \ {{}}, NEW u \in Uploads,
             CreatePost(p, kind, d, S, u)
      PROVE  \A q \in Posts : RowFate(q)
  <2>1. RowComes(p)
    BY <1>0, <1>1 DEF CreatePost, RowComes
  <2>2. \A q \in Posts \ {p} : posts'[q] = posts[q]
    BY <1>0, <1>1 DEF CreatePost
  <2> QED
    BY <2>1, <2>2 DEF RowFate, RowStays
<1>2. ASSUME UNCHANGED posts
      PROVE  \A q \in Posts : RowFate(q)
  BY <1>2 DEF RowFate, RowStays
<1>3. ASSUME NEW r \in Requests, NEW op \in AllOps, Writes(r, op)
      PROVE  /\ api[r].post \in Posts /\ posts[api[r].post] \in Row
             /\ op = "retry" => posts[api[r].post].status
                                   \in {"failed", "cancelled"}
  BY <1>0, <1>3, WriterHasPost DEF Writes, PromptInv, RequestsAreSafe
<1>4. ASSUME NEW r \in Requests, CommitCancel(r)
      PROVE  FALSE
  BY <1>4 DEF CommitCancel, Writes, PromptUse, PromptInv, RequestsAreSafe
<1>5. ASSUME NEW r \in Requests, NEW d \in 0..MaxDelay, CommitRetry(r, d)
      PROVE  \A q \in Posts : RowFate(q)
  <2> DEFINE p == api[r].post
             x == [posts[p] EXCEPT !.status = "pending", !.delay = d, !.age = 0]
  <2>1. /\ p \in Posts /\ posts[p] \in Row
        /\ posts[p].status \in {"failed", "cancelled"}
    BY <1>0, <1>3, <1>5 DEF CommitRetry
  <2>2. d \in Nat
    BY ConstantsAssumption
  <2>3. x.status = "pending" /\ x.upload = posts[p].upload
    BY <1>0, <2>1, <2>2, UploadKept
  <2>4. posts' = [posts EXCEPT ![p] = x]
    BY <1>5 DEF CommitRetry
  <2> HIDE DEF x
  <2>5. posts'[p] = x
    BY <1>0, <2>1, <2>4
  <2>6. RowFate(p)
    BY <2>1, <2>3, <2>5 DEF RowFate, RowMoves, Exists
  <2> QED
    BY <1>0, <2>1, <2>4, <2>6, OneRowFate
<1>6. ASSUME NEW r \in Requests, NEW d \in 0..MaxDelay, CommitReschedule(r, d)
      PROVE  \A q \in Posts : RowFate(q)
  <2> DEFINE p == api[r].post
             x == [posts[p] EXCEPT !.delay = d, !.age = 0]
  <2>1. p \in Posts /\ posts[p] \in Row
    BY <1>0, <1>3, <1>6 DEF CommitReschedule
  <2>2. d \in Nat
    BY ConstantsAssumption
  <2>3. x.status = posts[p].status /\ x.upload = posts[p].upload
    BY <1>0, <2>1, <2>2, UploadKept
  <2>4. posts' = [posts EXCEPT ![p] = x]
    BY <1>6 DEF CommitReschedule
  <2> HIDE DEF x
  <2>5. posts'[p] = x
    BY <1>0, <2>1, <2>4
  <2>6. RowFate(p)
    BY <2>3, <2>5 DEF RowFate, RowStays
  <2> QED
    BY <1>0, <2>1, <2>4, <2>6, OneRowFate
<1>7. ASSUME NEW r \in Requests, NEW S \in (SUBSET Platforms) \ {{}},
             CommitRetarget(r, S)
      PROVE  \A q \in Posts : RowFate(q)
  <2> DEFINE p == api[r].post
             x == [posts[p] EXCEPT !.platforms = S, !.age = 0]
  <2>1. p \in Posts /\ posts[p] \in Row
    BY <1>0, <1>3, <1>7 DEF CommitRetarget
  <2>3. x.status = posts[p].status /\ x.upload = posts[p].upload
    BY <1>0, <2>1, UploadKept
  <2>4. posts' = [posts EXCEPT ![p] = x]
    BY <1>7 DEF CommitRetarget
  <2> HIDE DEF x
  <2>5. posts'[p] = x
    BY <1>0, <2>1, <2>4
  <2>6. RowFate(p)
    BY <2>3, <2>5 DEF RowFate, RowStays
  <2> QED
    BY <1>0, <2>1, <2>4, <2>6, OneRowFate
<1>8. ASSUME NEW r \in Requests, CommitDelete(r)
      PROVE  \A q \in Posts : RowFate(q)
  <2>1. api[r].post \in Posts
    BY <1>0, <1>3, <1>8 DEF CommitDelete
  <2>2. RowFate(api[r].post)
    BY <1>8 DEF RowFate, RowGoes
  <2> QED
    BY <1>0, <1>8, <2>1, <2>2, OneRowFate DEF CommitDelete
<1> QED
  BY <1>1, <1>2, <1>4, <1>5, <1>6, <1>7, <1>8 DEF UserStep, Load, Abandon

LEMMA RowFates ==
    ASSUME PromptUse, PromptInv, [Next]_vars
    PROVE  \A p \in Posts : RowFate(p)
<1> USE DEF dbVars
<1>0. TypeInv /\ posts \in [Posts -> Row] /\ 0 \in Nat
  BY DEF PromptInv, TypeInv, TypeOK
<1>1. ASSUME UNCHANGED posts
      PROVE  \A p \in Posts : RowFate(p)
  BY <1>1 DEF RowFate, RowStays
<1>2. ASSUME NEW w \in Workers, StartDispatch(w)
      PROVE  \A p \in Posts : RowFate(p)
  <2> SUFFICES ASSUME NEW p \in Posts PROVE RowFate(p)
    OBVIOUS
  <2> DEFINE x == [posts[p] EXCEPT !.status = "pending", !.age = 0]
  <2>1. posts'[p] = IF Stale(p) THEN x ELSE posts[p]
    BY <1>2 DEF StartDispatch
  <2>2. x.status = "pending" /\ x.upload = posts[p].upload
    BY <1>0, UploadKept DEF Status
  <2> HIDE DEF x
  <2> QED
    BY <2>1, <2>2 DEF RowFate, RowStays, RowMoves, Exists, Stale
<1>3. ASSUME NEW w \in Workers, NEW m \in queue, StartPublish(w, m)
      PROVE  \A p \in Posts : RowFate(p)
  <2> DEFINE x == [posts[m.post] EXCEPT !.status = "posting", !.age = 0]
  <2>1. m.post \in Posts /\ posts[m.post].status = "pending"
    BY <1>3, ClaimOutcome
  <2>2. x.status = "posting" /\ x.upload = posts[m.post].upload
    BY <1>0, <2>1, UploadKept DEF Status
  <2>3. posts' = [posts EXCEPT ![m.post] = x]
    BY <1>3 DEF StartPublish
  <2> HIDE DEF x
  <2>4. posts'[m.post] = x
    BY <1>0, <2>1, <2>3
  <2>5. RowFate(m.post)
    BY <2>1, <2>2, <2>4 DEF RowFate, RowMoves, Exists
  <2> QED
    BY <1>0, <2>1, <2>3, <2>5, OneRowFate
<1>4. ASSUME NEW w \in Workers, Record(w)
      PROVE  \A p \in Posts : RowFate(p)
  <2> DEFINE p == worker[w].msg.post
             final == IF AllSucceeded(w) THEN "posted" ELSE "failed"
             x == [posts[p] EXCEPT !.status = final, !.age = 0]
  <2>1. p \in Posts /\ posts[p].status = "posting"
    BY <1>4, RecordOutcome
  <2>2. final \in Status /\ final \in {"posted", "failed"}
    BY DEF Status
  <2>3. posts' = [posts EXCEPT ![p] = x]
    BY <1>4, <2>1 DEF Record
  <2> HIDE DEF final
  <2>4. x.status = final /\ x.upload = posts[p].upload
    BY <1>0, <2>1, <2>2, UploadKept
  <2> HIDE DEF x
  <2>5. posts'[p] = x
    BY <1>0, <2>1, <2>3
  <2>6. RowFate(p)
    BY <2>1, <2>2, <2>4, <2>5 DEF RowFate, RowMoves, Exists
  <2> QED
    BY <1>0, <2>1, <2>3, <2>6, OneRowFate
<1>5. ASSUME Tick
      PROVE  \A p \in Posts : RowFate(p)
  <2> SUFFICES ASSUME NEW p \in Posts PROVE RowFate(p)
    OBVIOUS
  <2> DEFINE d == IF posts[p].delay > 0 THEN posts[p].delay - 1 ELSE 0
             a == IF posts[p].status = "posting" /\ posts[p].age <= StaleTicks
                  THEN posts[p].age + 1 ELSE posts[p].age
             x == [posts[p] EXCEPT !.delay = d, !.age = a]
  <2>1. posts'[p] = x
    BY <1>5 DEF Tick
  <2>2. d \in Nat /\ a \in Nat
    BY <1>0 DEF Row
  <2> HIDE DEF d, a
  <2>3. x.status = posts[p].status /\ x.upload = posts[p].upload
    BY <1>0, <2>2, UploadKept
  <2> HIDE DEF x
  <2> QED
    BY <2>1, <2>3 DEF RowFate, RowStays
<1>6. ASSUME NEW w \in Workers, DispatchStep(w)
      PROVE  \A p \in Posts : RowFate(p)
  BY <1>1, <1>2, <1>6 DEF DispatchStep, DispatchFails, DispatchHeld, DispatchPost
<1>7. ASSUME NEW w \in Workers, PublishStep(w)
      PROVE  \A p \in Posts : RowFate(p)
  <2>1. ASSUME NEW m \in queue, SkipPublish(w, m) PROVE UNCHANGED posts
    BY <2>1 DEF SkipPublish
  <2>2. ASSUME NEW pl \in Platforms, NEW landed \in BOOLEAN,
               NEW good \in BOOLEAN, Upload(w, pl, landed, good)
        PROVE  UNCHANGED posts
    BY <2>2 DEF Upload
  <2>3. ASSUME RecordFails(w) \/ CleanUp(w) \/ Finish(w) PROVE UNCHANGED posts
    BY <2>3 DEF RecordFails, CleanUp, Finish
  <2> QED
    BY <1>1, <1>3, <1>4, <1>7, <2>1, <2>2, <2>3 DEF PublishStep
<1>8. ASSUME FaultStep \/ UNCHANGED vars
      PROVE  UNCHANGED posts
  BY <1>8 DEF FaultStep, Crash, Redeliver, CrashHoldingLease, vars
<1> QED
  BY <1>1, <1>5, <1>6, <1>7, <1>8, WrittenRows DEF Next

\* Files go with a deleted row or with a published one, and never come back.
LEMMA FileFates ==
    ASSUME PromptInv, [Next]_vars
    PROVE  \/ UNCHANGED file
           \/ \E r \in Requests : CommitDelete(r)
           \/ \E w \in Workers : CleanUp(w)
<1> USE DEF dbVars, ghostVars
<1>1. ASSUME UserStep
      PROVE  UNCHANGED file \/ \E r \in Requests : CommitDelete(r)
  BY <1>1 DEF UserStep, CreatePost, Load, CommitCancel, CommitRetry,
     CommitReschedule, CommitRetarget, Abandon
<1>2. ASSUME NEW w \in Workers, DispatchStep(w)
      PROVE  UNCHANGED file
  BY <1>2 DEF DispatchStep, StartDispatch, DispatchFails, DispatchHeld,
     DispatchPost
<1>3. ASSUME NEW w \in Workers, PublishStep(w)
      PROVE  UNCHANGED file \/ CleanUp(w)
  BY <1>3 DEF PublishStep, StartPublish, SkipPublish, Upload, Record,
     RecordFails, Finish
<1>4. ASSUME FaultStep \/ Tick \/ UNCHANGED vars
      PROVE  UNCHANGED file
  BY <1>4 DEF FaultStep, Crash, Redeliver, CrashHoldingLease, Tick, vars
<1> QED
  BY <1>1, <1>2, <1>3, <1>4 DEF Next

\* Who cleans up has recorded a success, now or before.
LEMMA CleanerFates ==
    ASSUME PromptInv, [Next]_vars, NEW w \in Workers,
           worker'[w].pc = "cleaning"
    PROVE  /\ worker'[w].msg = worker[w].msg
           /\ worker[w].pc \in {"uploading", "cleaning"}
           /\ \/ worker[w].pc = "cleaning"
              \/ Record(w) /\ AllSucceeded(w)
<1> USE DEF dbVars, ghostVars
<1>0. TypeInv /\ worker \in [Workers -> WorkerState] /\ Idle.pc = "idle"
  BY IdleTyped DEF PromptInv, TypeInv, TypeOK
<1>1. ASSUME NEW v \in Workers, NEW x, worker' = [worker EXCEPT ![v] = x],
             x.pc # "cleaning"
      PROVE  worker[w].pc = "cleaning" /\ worker'[w].msg = worker[w].msg
  BY <1>0, <1>1
<1>2. ASSUME UserStep \/ Tick \/ UNCHANGED vars
      PROVE  UNCHANGED worker
  BY <1>2 DEF UserStep, CreatePost, Load, CommitCancel, CommitRetry,
     CommitReschedule, CommitRetarget, CommitDelete, Writes, Abandon, Tick, vars
<1>3. ASSUME NEW v \in Workers, DispatchStep(v)
      PROVE  worker[w].pc = "cleaning" /\ worker'[w].msg = worker[w].msg
  <2>1. CASE StartDispatch(v)
    <3> DEFINE x == IF DuePosts = {} THEN Idle
                  ELSE [Idle EXCEPT !.pc = "dispatching", !.batch = DuePosts]
    <3>1. x.pc # "cleaning"
      BY DEF Idle
    <3>2. worker' = [worker EXCEPT ![v] = x]
      BY <2>1 DEF StartDispatch
    <3> QED
      BY <1>1, <3>1, <3>2
  <2>2. CASE DispatchFails(v)
    BY <1>0, <1>1, <2>2 DEF DispatchFails
  <2>3. ASSUME NEW p \in Posts, DropFromBatch(v, p)
        PROVE  worker[w].pc = "cleaning" /\ worker'[w].msg = worker[w].msg
    <3>1. [worker[v] EXCEPT !.batch = @ \ {p}].pc = worker[v].pc
          /\ [worker[v] EXCEPT !.batch = @ \ {p}].msg = worker[v].msg
      BY <1>0 DEF WorkerState
    <3>2. CASE worker[v].batch = {p}
      BY <1>0, <1>1, <2>3, <3>2 DEF DropFromBatch
    <3>3. CASE worker[v].batch # {p}
      BY <1>0, <2>3, <3>1, <3>3 DEF DropFromBatch
    <3> QED
      BY <3>2, <3>3
  <2> QED
    BY <1>3, <2>1, <2>2, <2>3 DEF DispatchStep, DispatchHeld, DispatchPost
<1>4. ASSUME NEW v \in Workers, PublishStep(v), ~Record(v)
      PROVE  worker[w].pc = "cleaning" /\ worker'[w].msg = worker[w].msg
  <2>1. ASSUME NEW m \in queue, StartPublish(v, m)
        PROVE  worker[w].pc = "cleaning" /\ worker'[w].msg = worker[w].msg
    <3> DEFINE x == [Idle EXCEPT !.pc = "uploading", !.msg = m,
                         !.todo = posts[m.post].platforms,
                         !.handout = handouts[m.post]]
    <3>1. x.pc # "cleaning"
      BY DEF Idle
    <3>2. worker' = [worker EXCEPT ![v] = x]
      BY <2>1 DEF StartPublish
    <3> QED
      BY <1>1, <3>1, <3>2
  <2>2. ASSUME NEW pl \in Platforms, NEW landed \in BOOLEAN,
               NEW good \in BOOLEAN, Upload(v, pl, landed, good)
        PROVE  worker[w].pc = "cleaning" /\ worker'[w].msg = worker[w].msg
    <3>1. v # w => worker'[w] = worker[w]
      BY <1>0, <2>2 DEF Upload
    <3>2. v = w => worker'[w].pc = "uploading"
      BY <1>0, <2>2 DEF Upload, WorkerState
    <3> QED
      BY <3>1, <3>2
  <2>3. CASE RecordFails(v) \/ CleanUp(v) \/ Finish(v)
    <3>1. v # w => worker'[w] = worker[w]
      BY <1>0, <2>3 DEF RecordFails, CleanUp, Finish
    <3>2. v = w => worker'[w].pc \in {"releasing", "idle"}
      BY <1>0, <2>3 DEF RecordFails, CleanUp, Finish, WorkerState
    <3> QED
      BY <3>1, <3>2
  <2>4. ASSUME NEW m \in queue, SkipPublish(v, m)
        PROVE  UNCHANGED worker
    BY <2>4 DEF SkipPublish
  <2> QED
    BY <1>4, <2>1, <2>2, <2>3, <2>4 DEF PublishStep
<1>5. ASSUME NEW v \in Workers, Record(v)
      PROVE  /\ worker'[w].msg = worker[w].msg
             /\ worker[w].pc \in {"uploading", "cleaning"}
             /\ worker[w].pc = "cleaning" \/ (w = v /\ AllSucceeded(w))
  <2>1. v # w => worker'[w] = worker[w]
    BY <1>5, RecordOutcome
  <2>2. ASSUME v = w
        PROVE  /\ worker'[w].msg = worker[w].msg
               /\ worker'[w].pc = IF CleansUp(w) THEN "cleaning"
                                  ELSE "releasing"
               /\ worker[w].pc = "uploading"
    BY <1>0, <1>5, <2>2 DEF Record, WorkerState
  <2> QED
    BY <2>1, <2>2 DEF CleansUp
<1>6. CASE FaultStep
  <2>1. ASSUME NEW v \in Workers, Crash(v) \/ worker' = [worker EXCEPT ![v] = Idle]
        PROVE  worker[w].pc = "cleaning" /\ worker'[w].msg = worker[w].msg
    BY <1>0, <1>1, <2>1 DEF Crash
  <2> QED
    BY <1>6, <2>1 DEF FaultStep, Redeliver, CrashHoldingLease
<1> QED
  BY <1>2, <1>3, <1>4, <1>5, <1>6 DEF Next

\* What PostedIsFinalCorrect shows of a step.
LEMMA PostedStays ==
    ASSUME PromptUse, PromptInv, [Next]_vars, NEW p \in Posts,
           posts[p].status = "posted"
    PROVE  posts'[p].status \in {"posted", "deleted"}
<1>1. CASE Quiet
  BY <1>1 DEF Quiet, Kept, Freed
<1>2. ASSUME NEW w \in Workers, NEW m \in queue, StartPublish(w, m)
      PROVE  posts'[p] = posts[p]
  BY <1>2, ClaimOutcome
<1>3. ASSUME NEW w \in Workers, NEW pl \in Platforms,
             NEW landed \in BOOLEAN, NEW good \in BOOLEAN,
             Upload(w, pl, landed, good)
      PROVE  posts'[p] = posts[p]
  BY <1>3 DEF Upload, dbVars
<1>4. ASSUME NEW w \in Workers, Record(w)
      PROVE  posts'[p] = posts[p]
  BY <1>4, RecordOutcome
<1> QED
  BY <1>1, <1>2, <1>3, <1>4, PromptSteps

\* A request deletes a row that is there, with the file only it refers to.
LEMMA DeletedFile ==
    ASSUME PromptInv, OwnUploads, FileInv, NEW r \in Requests, CommitDelete(r)
    PROVE  LET p == api[r].post IN
           /\ p \in Posts /\ Exists(p)
           /\ posts'[p].status = "deleted"
           /\ posts'[p].upload = posts[p].upload
           /\ \A q \in Posts \ {p} : posts'[q] = posts[q]
           /\ file' = [file EXCEPT ![posts[p].upload] = FALSE]
<1> DEFINE p == api[r].post
<1>0. /\ TypeOK /\ posts \in [Posts -> Row] /\ 0 \in Nat
      /\ "deleted" \in Status /\ "delete" \in AllOps
  BY DEF PromptInv, TypeInv, TypeOK, Status, AllOps
<1>1. p \in Posts /\ posts[p].status # "deleted" /\ api[r].op = "delete"
  BY <1>0, WriterHasPost DEF CommitDelete, Writes
<1>2. Exists(p)
  BY <1>1 DEF FileInv, Exists, NoReq
<1>3. ~SharesUpload(p)
  BY <1>1, <1>2 DEF SharesUpload, OwnUploads, Exists
<1> DEFINE x == [posts[p] EXCEPT !.status = "deleted", !.delay = 0, !.age = 0]
<1>4. x.status = "deleted" /\ x.upload = posts[p].upload
  BY <1>0, <1>1, UploadKept
<1>5. posts' = [posts EXCEPT ![p] = x]
  BY DEF CommitDelete
<1>6. file' = [file EXCEPT ![posts[p].upload] = FALSE]
  BY <1>3 DEF CommitDelete
<1> HIDE DEF x
<1>7. posts'[p] = x /\ \A q \in Posts \ {p} : posts'[q] = posts[q]
  BY <1>0, <1>1, <1>5
<1> QED
  BY <1>1, <1>2, <1>4, <1>6, <1>7

\* A request past its load has looked at a row that was there.
LEMMA RequestFates ==
    ASSUME PromptInv, [Next]_vars, NEW r \in Requests, api'[r] # NoReq
    PROVE  \/ api'[r] = api[r]
           \/ posts[api'[r].post].status # "absent"
<1> USE DEF dbVars, ghostVars
<1>0. api \in [Requests -> Request \cup {NoReq}]
  BY DEF PromptInv, TypeInv, TypeOK
<1>1. ASSUME NEW s \in Requests, NEW op \in AllOps, NEW p \in Posts,
             Load(s, op, p)
      PROVE  api'[r] = api[r] \/ posts[api'[r].post].status # "absent"
  BY <1>0, <1>1 DEF Load, MayLoad
<1>2. ASSUME NEW s \in Requests, NEW op, Writes(s, op) \/ Abandon(s)
      PROVE  api'[r] = api[r]
  BY <1>0, <1>2 DEF Writes, Abandon
<1>3. CASE UserStep
  BY <1>1, <1>2, <1>3 DEF UserStep, CreatePost, CommitCancel, CommitRetry,
     CommitReschedule, CommitRetarget, CommitDelete
<1>4. ASSUME NEW w \in Workers, DispatchStep(w)
      PROVE  UNCHANGED api
  BY <1>4 DEF DispatchStep, StartDispatch, DispatchFails, DispatchHeld,
     DispatchPost
<1>5. ASSUME NEW w \in Workers, PublishStep(w)
      PROVE  UNCHANGED api
  BY <1>5 DEF PublishStep, StartPublish, SkipPublish, Upload, Record,
     RecordFails, CleanUp, Finish
<1>6. ASSUME FaultStep \/ Tick \/ UNCHANGED vars
      PROVE  UNCHANGED api
  BY <1>6 DEF FaultStep, Crash, Redeliver, CrashHoldingLease, Tick, vars
<1> QED
  BY <1>3, <1>4, <1>5, <1>6 DEF Next

LEMMA StepFile ==
    ASSUME PromptUse, PromptInv, OwnUploads, FileInv, [Next]_vars
    PROVE  FileInv'
<1>0. /\ posts \in [Posts -> Row] /\ file \in [Uploads -> BOOLEAN]
      /\ posts' \in [Posts -> Row]
      /\ \A p \in Posts : posts[p].upload \in Uploads
  <2>1. TypeInv /\ TypeInv'
    BY StepTypeInv DEF PromptInv
  <2>2. posts \in [Posts -> Row] /\ file \in [Uploads -> BOOLEAN]
        /\ posts' \in [Posts -> Row]
    BY <2>1 DEF TypeInv, TypeOK
  <2> QED
    BY <2>2, RowFields
<1>1. ASSUME NEW w \in Workers, CleanUp(w)
      PROVE  /\ worker[w].msg.post \in Posts
             /\ posts' = posts
             /\ file' = [file EXCEPT ![posts[worker[w].msg.post].upload] = FALSE]
             /\ posts[worker[w].msg.post].status \in {"posted", "deleted"}
  <2>1. worker[w].msg.post \in Posts
    BY <1>1 DEF CleanUp, PromptInv, TypeInv, BusyHasMessage, Message
  <2> QED
    BY <1>1, <2>1 DEF CleanUp, dbVars, FileInv
\* No file comes back.
<1>2. \A u \in Uploads : file'[u] => file[u]
  <2>1. ASSUME NEW r \in Requests, CommitDelete(r)
        PROVE  \A u \in Uploads : file'[u] => file[u]
    BY <1>0, <2>1, DeletedFile
  <2>2. ASSUME NEW w \in Workers, CleanUp(w)
        PROVE  \A u \in Uploads : file'[u] => file[u]
    BY <1>0, <1>1, <2>2
  <2> QED
    BY <2>1, <2>2, FileFates
<1>3. \A p \in Posts : RowFate(p)
  BY RowFates
<1>4. ASSUME NEW p \in Posts, posts'[p].status = "deleted"
      PROVE  ~file'[posts'[p].upload]
  <2>1. CASE RowStays(p)
    BY <1>0, <1>2, <1>4, <2>1 DEF RowStays, FileInv
  <2>2. CASE RowGoes(p)
    BY <1>0, <2>2, DeletedFile DEF RowGoes
  <2> QED
    BY <1>3, <1>4, <2>1, <2>2 DEF RowFate, RowMoves, RowComes
<1>5. ASSUME NEW p \in Posts,
             posts'[p].status \in {"pending", "posting", "failed", "cancelled"}
      PROVE  file'[posts'[p].upload]
  <2>1. CASE RowComes(p)
    BY <2>1 DEF RowComes
  <2>2. CASE RowGoes(p)
    BY <1>5, <2>2, DeletedFile DEF RowGoes
  <2>3. CASE RowStays(p) \/ RowMoves(p)
    <3>1. /\ posts[p].status \in {"pending", "posting", "failed", "cancelled"}
          /\ Exists(p) /\ posts'[p].upload = posts[p].upload
      <4>1. posts[p].status # "posted"
        BY <1>5, PostedStays
      <4>2. posts[p].status \in Status
        BY <1>0 DEF Row
      <4> QED
        BY <1>5, <2>3, <4>1, <4>2 DEF RowStays, RowMoves, Exists, Status
    <3>2. file[posts[p].upload]
      BY <3>1 DEF FileInv, RetryableKeepsFile
    <3>3. ASSUME NEW r \in Requests, CommitDelete(r)
          PROVE  file'[posts[p].upload]
      <4>1. api[r].post # p
        BY <1>5, <3>3, DeletedFile
      <4>2. posts[api[r].post].upload # posts[p].upload
        BY <3>1, <3>3, <4>1, DeletedFile DEF OwnUploads
      <4> QED
        BY <1>0, <3>2, <3>3, <4>2, DeletedFile
    <3>4. ASSUME NEW w \in Workers, CleanUp(w)
          PROVE  file'[posts[p].upload]
      <4> DEFINE q == worker[w].msg.post
      <4>1. q \in Posts /\ posts[q].status \in {"posted", "deleted"} /\ q # p
        BY <1>1, <3>1, <3>4
      <4>2. posts[q].upload # posts[p].upload
        <5>1. CASE posts[q].status = "posted"
          BY <3>1, <4>1, <5>1 DEF OwnUploads, Exists
        <5>2. CASE posts[q].status = "deleted"
          BY <3>2, <4>1, <5>2 DEF FileInv
        <5> QED
          BY <4>1, <5>1, <5>2
      <4> QED
        BY <1>0, <1>1, <3>2, <3>4, <4>2
    <3> QED
      BY <3>1, <3>2, <3>3, <3>4, FileFates
  <2> QED
    BY <1>3, <2>1, <2>2, <2>3 DEF RowFate
<1>6. ASSUME NEW w \in Workers, worker'[w].pc = "cleaning"
      PROVE  posts'[worker'[w].msg.post].status \in {"posted", "deleted"}
  <2>1. PICK p : p = worker[w].msg.post
    OBVIOUS
  <2>2. worker'[w].msg.post = p /\ p \in Posts
    BY <1>6, <2>1, CleanerFates
    DEF PromptInv, TypeInv, BusyHasMessage, Message
  <2>3. CASE worker[w].pc = "cleaning"
    <3>1. posts[p].status \in {"posted", "deleted"}
      BY <2>1, <2>3 DEF FileInv
    <3>2. posts[p].status = "deleted" => posts'[p].status = "deleted"
      BY <1>3, <2>2, DeletedFile
      DEF RowFate, RowStays, RowMoves, RowGoes, RowComes, Exists
    <3> QED
      BY <2>2, <3>1, <3>2, PostedStays
  <2>4. CASE Record(w) /\ AllSucceeded(w)
    BY <2>1, <2>2, <2>4, RecordOutcome
  <2> QED
    BY <1>6, <2>3, <2>4, CleanerFates
<1>7. ASSUME NEW r \in Requests, api'[r] # NoReq
      PROVE  posts'[api'[r].post].status # "absent"
  <2>1. PICK p : p = api'[r].post
    OBVIOUS
  <2>2. p \in Posts
    <3>1. TypeInv'
      BY StepTypeInv DEF PromptInv
    <3>2. api'[r] \in Request
      BY <1>7, <3>1 DEF TypeInv, TypeOK
    <3> QED
      BY <2>1, <3>2 DEF Request
  <2>3. posts[p].status # "absent"
    BY <1>7, <2>1, RequestFates DEF FileInv
  <2>4. posts'[p].status # "absent"
    BY <1>3, <2>2, <2>3, DeletedFile
    DEF RowFate, RowStays, RowMoves, RowGoes, RowComes
  <2> QED
    BY <2>1, <2>4
<1> QED
  BY <1>4, <1>5, <1>6, <1>7 DEF FileInv, RetryableKeepsFile

\* While uploads are prompt, nobody cancels, one request is under way at a
\* time and no two posts share an upload, a post that may still be published
\* or retried has its file.
THEOREM RetryableKeepsFileCorrect ==
    ASSUME PromptUse
    PROVE  Spec /\ []OwnUploads => []RetryableKeepsFile
<1>1. Init => FileInv
  BY IdleTyped DEF Init, FileInv, RetryableKeepsFile, EmptyRow, NoReq
<1>2. PromptInv /\ OwnUploads /\ FileInv /\ [Next]_vars => FileInv'
  BY StepFile
<1>3. PromptInv /\ [Next]_vars => PromptInv'
  BY StepPrompt
<1>4. FileInv => RetryableKeepsFile
  BY DEF FileInv
<1> QED
  BY <1>1, <1>2, <1>3, <1>4, InitPrompt, PTL DEF Spec

-----------------------------------------------------------------------------
(* No run starts before its time, while no request puts a post off for      *)
(* which a task may be queued.                                              *)

NothingPutOff == ApiOps \cap {"retry", "reschedule"} = {}

\* A row whose time has come, or that YouTube keeps until then.
DueRow(x) == x.status # "absent" /\ (x.native \/ x.delay = 0)

Underway(p) ==
    \/ \E m \in queue : m.post = p
    \/ \E w \in Workers : worker[w].msg.post = p \/ p \in worker[w].batch

EarlyInv ==
    /\ \A p \in Posts : Underway(p) => DueRow(posts[p])
    /\ \A r \in Requests : api[r] # NoReq => api[r].op \in ApiOps

\* Rows stay due, and only a due row gets under way.
DueStays  == \A p \in Posts : DueRow(posts[p]) => DueRow(posts'[p])
ComesDue == \A p \in Posts : Underway(p)' => Underway(p) \/ DueRow(posts'[p])

LEMMA DueKept ==
    ASSUME NEW x \in Row, DueRow(x), NEW a \in Nat, NEW s \in Status,
           s # "absent", NEW S \in SUBSET Platforms
    PROVE  /\ DueRow([x EXCEPT !.status = s, !.age = a])
           /\ DueRow([x EXCEPT !.platforms = S, !.age = a])
           /\ DueRow([x EXCEPT !.status = s, !.delay = 0, !.age = a])
           /\ DueRow([x EXCEPT !.delay = IF @ > 0 THEN @ - 1 ELSE 0, !.age = a])
<1>1. x.delay \in Nat
  BY DEF Row
<1>2. /\ [x EXCEPT !.status = s, !.age = a].status = s
      /\ [x EXCEPT !.status = s, !.age = a].native = x.native
      /\ [x EXCEPT !.status = s, !.age = a].delay = x.delay
  BY DEF Row
<1>3. /\ [x EXCEPT !.platforms = S, !.age = a].status = x.status
      /\ [x EXCEPT !.platforms = S, !.age = a].native = x.native
      /\ [x EXCEPT !.platforms = S, !.age = a].delay = x.delay
  BY DEF Row
<1>4. /\ [x EXCEPT !.status = s, !.delay = 0, !.age = a].status = s
      /\ [x EXCEPT !.status = s, !.delay = 0, !.age = a].native = x.native
      /\ [x EXCEPT !.status = s, !.delay = 0, !.age = a].delay = 0
  BY DEF Row
<1> DEFINE d == IF x.delay > 0 THEN x.delay - 1 ELSE 0
           y == [x EXCEPT !.delay = d, !.age = a]
<1>5. x.delay = 0 => d = 0
  BY <1>1
<1> HIDE DEF d
<1>6. y.status = x.status /\ y.native = x.native /\ y.delay = d
  BY DEF Row
<1>7. y = [x EXCEPT !.delay = IF @ > 0 THEN @ - 1 ELSE 0, !.age = a]
  BY DEF d
<1> HIDE DEF y
<1>8. DueRow(y)
  BY <1>5, <1>6 DEF DueRow
<1> QED
  BY <1>2, <1>3, <1>4, <1>7, <1>8 DEF DueRow

LEMMA OneDueRow ==
    ASSUME TypeInv, NEW q \in Posts, NEW x, posts' = [posts EXCEPT ![q] = x],
           DueRow(posts[q]) => DueRow(x)
    PROVE  DueStays
BY DEF TypeInv, TypeOK, DueStays

LEMMA UserKeepsDue ==
    ASSUME NothingPutOff, TypeInv, EarlyInv, UserStep  PROVE DueStays /\ ComesDue
<1> USE DEF dbVars, ghostVars
<1>0. /\ TypeOK /\ posts \in [Posts -> Row] /\ 0 \in Nat
      /\ "cancelled" \in Status /\ "deleted" \in Status
      /\ {"cancel", "retry", "reschedule", "retarget", "delete"} \subseteq AllOps
  BY DEF TypeInv, TypeOK, Status, AllOps
<1>1. ASSUME NEW p \in Posts, NEW kind \in Kinds, NEW d \in 0..MaxDelay,
             NEW S \in (SUBSET Platforms) \ {{}}, NEW u \in Uploads,
             CreatePost(p, kind, d, S, u)
      PROVE  DueStays /\ ComesDue
  <2> DEFINE x == [status |-> "pending", delay |-> d, platforms |-> S,
                    native |-> kind = "native", upload |-> u, age |-> 0]
  <2>1. posts[p].status = "absent" /\ posts' = [posts EXCEPT ![p] = x]
        /\ UNCHANGED worker
    BY <1>1 DEF CreatePost
  <2>2. DueStays
    BY <2>1, OneDueRow DEF DueRow
  <2>3. kind # "scheduled" => DueRow(x)
    <3>1. x.status = "pending" /\ x.delay = d /\ x.native = (kind = "native")
      OBVIOUS
    <3>2. kind = "now" => d = 0
      BY <1>1 DEF CreatePost
    <3>3. kind \in {"now", "scheduled", "native"}
      BY ConstantsAssumption DEF AllKinds
    <3> HIDE DEF x
    <3> QED
      BY <3>1, <3>2, <3>3 DEF DueRow
  <2>4. \/ kind # "scheduled" /\ queue' = queue \cup {[post |-> p, token |-> NoToken]}
        \/ UNCHANGED queue
    BY <1>1 DEF CreatePost
  <2>5. posts'[p] = x
    BY <1>0, <2>1
  <2> HIDE DEF x
  <2>6. ComesDue
    BY <2>1, <2>3, <2>4, <2>5 DEF ComesDue, Underway
  <2> QED
    BY <2>2, <2>6
<1>2. ASSUME UNCHANGED <<queue, worker>>, DueStays  PROVE DueStays /\ ComesDue
  BY <1>2 DEF ComesDue, Underway
<1>3. ASSUME NEW r \in Requests, NEW op \in AllOps, NEW p \in Posts, Load(r, op, p)
      PROVE  DueStays /\ ComesDue
  BY <1>2, <1>3 DEF Load, DueStays
<1>4. ASSUME NEW r \in Requests, CommitCancel(r)
      PROVE  DueStays /\ ComesDue
  <2>1. Writes(r, "cancel") /\ api[r].post \in Posts
    BY <1>0, <1>4, WriterHasPost DEF CommitCancel
  <2>2. DueStays
    BY <1>0, <1>4, <2>1, OneDueRow, DueKept DEF CommitCancel
  <2> QED
    BY <1>2, <2>1, <2>2 DEF Writes
<1>5. ASSUME NEW r \in Requests, NEW d \in 0..MaxDelay,
             CommitRetry(r, d) \/ CommitReschedule(r, d)
      PROVE  FALSE
  <2>1. api[r].op \in {"retry", "reschedule"}
    BY <1>5 DEF CommitRetry, CommitReschedule, Writes
  <2>2. api[r] # NoReq
    BY <2>1 DEF NoReq
  <2> QED
    BY <2>1, <2>2 DEF EarlyInv, NothingPutOff
<1>6. ASSUME NEW r \in Requests, NEW S \in (SUBSET Platforms) \ {{}},
             CommitRetarget(r, S)
      PROVE  DueStays /\ ComesDue
  <2>1. Writes(r, "retarget") /\ api[r].post \in Posts
    BY <1>0, <1>6, WriterHasPost DEF CommitRetarget
  <2>2. DueStays
    BY <1>0, <1>6, <2>1, OneDueRow, DueKept DEF CommitRetarget
  <2> QED
    BY <1>2, <2>1, <2>2 DEF Writes
<1>7. ASSUME NEW r \in Requests, CommitDelete(r)
      PROVE  DueStays /\ ComesDue
  <2>1. Writes(r, "delete") /\ api[r].post \in Posts
    BY <1>0, <1>7, WriterHasPost DEF CommitDelete
  <2>2. DueStays
    BY <1>0, <1>7, <2>1, OneDueRow, DueKept DEF CommitDelete
  <2> QED
    BY <1>2, <2>1, <2>2 DEF Writes
<1>8. ASSUME NEW r \in Requests, Abandon(r)
      PROVE  DueStays /\ ComesDue
  BY <1>2, <1>8 DEF Abandon, DueStays
<1> QED
  BY <1>1, <1>3, <1>4, <1>5, <1>6, <1>7, <1>8 DEF UserStep

LEMMA WorkKeepsDue ==
    ASSUME TypeInv, EarlyInv, NEW w \in Workers,
           DispatchStep(w) \/ PublishStep(w)
    PROVE  DueStays /\ ComesDue
<1> USE DEF dbVars, ghostVars
<1>0. /\ TypeOK /\ posts \in [Posts -> Row] /\ 0 \in Nat
      /\ {"pending", "posting", "posted", "failed"} \subseteq Status
      /\ queue \subseteq Message /\ worker \in [Workers -> WorkerState]
      /\ Idle.msg = NoMsg /\ Idle.batch = {} /\ NoMsg.post \notin Posts
  BY ConstantsAssumption DEF TypeInv, TypeOK, Status, Idle, NoMsg
<1>1. ASSUME UNCHANGED posts,
             \A m \in queue' \ queue : m.post \in Posts => Underway(m.post),
             \A v \in Workers :
                 /\ worker'[v].msg.post \in Posts => Underway(worker'[v].msg.post)
                 /\ worker'[v].batch \subseteq worker[v].batch
      PROVE  DueStays /\ ComesDue
  BY <1>1 DEF DueStays, ComesDue, Underway
<1>2. CASE StartDispatch(w)
  <2>1. worker' = [worker EXCEPT ![w] =
                    IF DuePosts = {} THEN Idle
                    ELSE [Idle EXCEPT !.pc = "dispatching", !.batch = DuePosts]]
        /\ UNCHANGED queue
    BY <1>2 DEF StartDispatch
  <2>2. DueStays
    <3>1. posts' = [p \in Posts |->
                   IF Stale(p)
                   THEN [posts[p] EXCEPT !.status = "pending", !.age = 0]
                   ELSE posts[p]]
      BY <1>2 DEF StartDispatch
    <3> SUFFICES ASSUME NEW p \in Posts, DueRow(posts[p])  PROVE DueRow(posts'[p])
      BY DEF DueStays
    <3>2. DueRow([posts[p] EXCEPT !.status = "pending", !.age = 0])
      BY <1>0, DueKept
    <3> QED
      BY <3>1, <3>2
  <2>3. \A p \in DuePosts : p \in Posts /\ DueRow(posts[p])
    BY DEF DuePosts, DueRow
  <2>4. worker'[w].msg = NoMsg /\ worker'[w].batch \subseteq DuePosts
    BY <1>0, <2>1 DEF Idle
  <2>5. \A v \in Workers \ {w} : worker'[v] = worker[v]
    BY <1>0, <2>1
  <2>6. \A p \in DuePosts : DueRow(posts'[p])
    BY <2>2, <2>3 DEF DueStays
  <2>7. ComesDue
    BY <1>0, <2>1, <2>4, <2>5, <2>6 DEF ComesDue, Underway
  <2> QED
    BY <2>2, <2>7
<1>3. ASSUME NEW p \in Posts, DropFromBatch(w, p)
      PROVE  \A v \in Workers :
                 /\ worker'[v].msg.post \in Posts => Underway(worker'[v].msg.post)
                 /\ worker'[v].batch \subseteq worker[v].batch
  <2>1. \A v \in Workers : /\ worker'[v].msg \in {NoMsg, worker[v].msg}
                           /\ worker'[v].batch \subseteq worker[v].batch
    BY <1>0, <1>3 DEF DropFromBatch, WorkerState
  <2> QED
    BY <1>0, <2>1 DEF Underway
<1>4. ASSUME NEW p \in Posts, DispatchHeld(w, p)  PROVE DueStays /\ ComesDue
  BY <1>1, <1>3, <1>4 DEF DispatchHeld
<1>5. ASSUME NEW p \in Posts, NEW t \in Tokens, DispatchPost(w, p, t)
      PROVE  DueStays /\ ComesDue
  <2>1. Underway(p)
    BY <1>5 DEF DispatchPost, Underway
  <2> QED
    BY <1>1, <1>3, <1>5, <2>1 DEF DispatchPost
<1>6. ASSUME worker' = [worker EXCEPT ![w] = Idle], UNCHANGED <<posts, queue>>
      PROVE  DueStays /\ ComesDue
  <2>1. \A v \in Workers : /\ worker'[v].msg \in {NoMsg, worker[v].msg}
                           /\ worker'[v].batch \subseteq worker[v].batch
    BY <1>0, <1>6
  <2>2. \A v \in Workers :
          worker'[v].msg.post \in Posts => Underway(worker'[v].msg.post)
    BY <1>0, <2>1 DEF Underway
  <2> QED
    BY <1>1, <1>6, <2>1, <2>2
<1>7. ASSUME NEW m \in queue, StartPublish(w, m)  PROVE DueStays /\ ComesDue
  <2>1. m.post \in Posts /\ Underway(m.post)
    BY <1>0 DEF Message, Underway
  <2>2. /\ queue' = queue \ {m}
        /\ posts' = [posts EXCEPT ![m.post] =
                       [@ EXCEPT !.status = "posting", !.age = 0]]
        /\ worker' = [worker EXCEPT ![w] =
                       [Idle EXCEPT !.pc = "uploading", !.msg = m,
                                 !.todo = posts[m.post].platforms,
                                 !.handout = handouts[m.post]]]
    BY <1>7 DEF StartPublish
  <2>3. DueStays
    BY <1>0, <2>1, <2>2, OneDueRow, DueKept
  <2>4. worker'[w].msg = m /\ worker'[w].batch = {}
    BY <1>0, <2>2 DEF Idle
  <2>5. \A v \in Workers \ {w} : worker'[v] = worker[v]
    BY <1>0, <2>2
  <2>6. ComesDue
    BY <2>1, <2>2, <2>4, <2>5 DEF ComesDue, Underway
  <2> QED
    BY <2>3, <2>6
<1>8. ASSUME NEW m \in queue, SkipPublish(w, m)  PROVE DueStays /\ ComesDue
  BY <1>8 DEF SkipPublish, DueStays, ComesDue, Underway
<1>9. ASSUME UNCHANGED <<posts, queue>>,
             \A v \in Workers : /\ worker'[v].msg = worker[v].msg
                                /\ worker'[v].batch = worker[v].batch
      PROVE  DueStays /\ ComesDue
  BY <1>9 DEF DueStays, ComesDue, Underway
<1>10. ASSUME NEW pl \in Platforms, NEW landed \in BOOLEAN, NEW good \in BOOLEAN,
              Upload(w, pl, landed, good)
       PROVE  DueStays /\ ComesDue
  <2>1. \A v \in Workers : /\ worker'[v].msg = worker[v].msg
                           /\ worker'[v].batch = worker[v].batch
    BY <1>0, <1>10 DEF Upload, WorkerState
  <2> QED
    BY <1>9, <1>10, <2>1 DEF Upload
<1>11. ASSUME NEW c, worker' = [worker EXCEPT ![w].pc = c]
       PROVE  \A v \in Workers : /\ worker'[v].msg = worker[v].msg
                                 /\ worker'[v].batch = worker[v].batch
  BY <1>0, <1>11 DEF WorkerState
<1>12. CASE Record(w)
  <2>1. DueStays
    <3>1. worker[w].msg.post \in Posts
      BY <1>12 DEF Record, TypeInv, BusyHasMessage, Message
    <3> DEFINE final == IF AllSucceeded(w) THEN "posted" ELSE "failed"
    <3>2. final \in Status /\ final # "absent"
      BY <1>0
    <3>3. \/ UNCHANGED posts
          \/ posts' = [posts EXCEPT ![worker[w].msg.post] =
                         [@ EXCEPT !.status = final, !.age = 0]]
      BY <1>12 DEF Record
    <3> HIDE DEF final
    <3> QED
      BY <1>0, <3>1, <3>2, <3>3, OneDueRow, DueKept DEF DueStays
  <2>2. /\ worker' = [worker EXCEPT ![w].pc =
                         IF CleansUp(w) THEN "cleaning" ELSE "releasing"]
        /\ UNCHANGED queue
    BY <1>12 DEF Record
  <2>3. \A v \in Workers : /\ worker'[v].msg = worker[v].msg
                           /\ worker'[v].batch = worker[v].batch
    BY <1>11, <2>2
  <2> QED
    BY <2>1, <2>2, <2>3 DEF ComesDue, Underway
<1>13. CASE RecordFails(w) \/ CleanUp(w)
  <2>1. worker' = [worker EXCEPT ![w].pc = "releasing"]
        /\ UNCHANGED <<posts, queue>>
    BY <1>13 DEF RecordFails, CleanUp
  <2> QED
    BY <1>9, <1>11, <2>1
<1>14. CASE Finish(w) \/ DispatchFails(w)
  BY <1>6, <1>14 DEF Finish, DispatchFails
<1> QED
  BY <1>2, <1>4, <1>5, <1>7, <1>8, <1>10, <1>12, <1>13, <1>14
     DEF DispatchStep, PublishStep

LEMMA FaultKeepsDue ==
    ASSUME TypeInv, EarlyInv, FaultStep  PROVE DueStays /\ ComesDue
<1> USE DEF dbVars, ghostVars
<1>0. /\ worker \in [Workers -> WorkerState]
      /\ Idle.msg = NoMsg /\ Idle.batch = {} /\ NoMsg.post \notin Posts
  BY ConstantsAssumption DEF TypeInv, TypeOK, Idle, NoMsg
<1>1. PICK w \in Workers : \/ Crash(w) \/ Redeliver(w)
        \/ \E p \in Posts, t \in Tokens : CrashHoldingLease(w, p, t)
  BY DEF FaultStep
<1>2. /\ UNCHANGED posts /\ queue' \subseteq queue \cup {worker[w].msg}
      /\ worker' = worker \/ worker' = [worker EXCEPT ![w] = Idle]
  BY <1>1 DEF Crash, Redeliver, CrashHoldingLease, Unacked
<1>3. \A v \in Workers : /\ worker'[v].msg \in {NoMsg, worker[v].msg}
                         /\ worker'[v].batch \subseteq worker[v].batch
  BY <1>0, <1>2
<1> QED
  BY <1>0, <1>2, <1>3 DEF DueStays, ComesDue, Underway

LEMMA TickKeepsDue ==
    ASSUME TypeInv, EarlyInv, Tick  PROVE DueStays /\ ComesDue
<1>1. /\ posts' = [p \in Posts |->
           [posts[p] EXCEPT
            !.delay = IF @ > 0 THEN @ - 1 ELSE 0,
            !.age = IF posts[p].status = "posting" /\ @ <= StaleTicks
                    THEN @ + 1 ELSE @]]
      /\ UNCHANGED <<queue, worker>>
  BY DEF Tick
<1>2. ASSUME NEW p \in Posts, DueRow(posts[p])  PROVE DueRow(posts'[p])
  <2> DEFINE a == IF posts[p].status = "posting" /\ posts[p].age <= StaleTicks
                  THEN posts[p].age + 1 ELSE posts[p].age
  <2>1. posts[p] \in Row /\ posts[p].age \in Nat
    BY DEF TypeInv, TypeOK, Row
  <2>2. a \in Nat
    BY <2>1
  <2>3. posts'[p] = [posts[p] EXCEPT !.delay = IF @ > 0 THEN @ - 1 ELSE 0,
                                     !.age = a]
    BY <1>1
  <2>4. "posting" \in Status /\ "posting" # "absent"
    BY DEF Status
  <2> HIDE DEF a
  <2> QED
    BY <1>2, <2>1, <2>2, <2>3, <2>4, DueKept
<1> QED
  BY <1>1, <1>2 DEF DueStays, ComesDue, Underway

LEMMA StepEarly ==
    NothingPutOff /\ TypeInv /\ EarlyInv /\ [Next]_vars => EarlyInv'
<1> SUFFICES ASSUME NothingPutOff, TypeInv, EarlyInv, [Next]_vars  PROVE EarlyInv'
  OBVIOUS
<1>1. DueStays /\ ComesDue
  <2>1. CASE UNCHANGED vars
    BY <2>1 DEF vars, DueStays, ComesDue, Underway
  <2> QED
    BY <2>1, UserKeepsDue, WorkKeepsDue, FaultKeepsDue, TickKeepsDue DEF Next
<1>2. \A p \in Posts : Underway(p)' => DueRow(posts'[p])
  BY <1>1 DEF EarlyInv, DueStays, ComesDue
<1>3. \A r \in Requests : api'[r] # NoReq => api'[r].op \in ApiOps
  <2>1. api \in [Requests -> Request \cup {NoReq}]
    BY DEF TypeInv, TypeOK
  <2>2. ASSUME NEW r \in Requests, NEW op \in AllOps, NEW p \in Posts,
               Load(r, op, p)
        PROVE  \A k \in Requests : api'[k] # NoReq => api'[k].op \in ApiOps
    BY <2>1, <2>2 DEF Load, EarlyInv
  <2>3. ASSUME NEW r \in Requests, api' = [api EXCEPT ![r] = NoReq]
        PROVE  \A k \in Requests : api'[k] # NoReq => api'[k].op \in ApiOps
    BY <2>1, <2>3 DEF EarlyInv
  <2>4. ASSUME UNCHANGED api
        PROVE  \A k \in Requests : api'[k] # NoReq => api'[k].op \in ApiOps
    BY <2>4 DEF EarlyInv
  <2>5. CASE UserStep
    BY <2>2, <2>3, <2>4, <2>5
       DEF UserStep, CreatePost, CommitCancel, CommitRetry, CommitReschedule,
           CommitRetarget, CommitDelete, Abandon, Writes
  <2>6. CASE ~UserStep
    <3>1. ASSUME NEW w \in Workers, DispatchStep(w)  PROVE UNCHANGED api
      BY <3>1 DEF DispatchStep, StartDispatch, DispatchFails, DispatchHeld,
         DispatchPost
    <3>2. ASSUME NEW w \in Workers, PublishStep(w)  PROVE UNCHANGED api
      BY <3>2 DEF PublishStep, StartPublish, SkipPublish, Upload, Record,
         RecordFails, CleanUp, Finish
    <3>3. FaultStep \/ Tick \/ UNCHANGED vars => UNCHANGED api
      BY DEF FaultStep, Crash, Redeliver, CrashHoldingLease, Tick, vars
    <3> QED
      BY <2>4, <2>6, <3>1, <3>2, <3>3 DEF Next
  <2> QED
    BY <2>5, <2>6
<1> QED
  BY <1>2, <1>3 DEF EarlyInv, Underway

\* Only a claim starts a run.
LEMMA ClaimsAreDue ==
    ASSUME TypeInv, EarlyInv, [Next]_vars, NEW w \in Workers,
           worker[w] = Idle, worker'[w].pc = "uploading"
    PROVE  LET p == worker'[w].msg.post IN posts[p].native \/ posts[p].delay = 0
<1>0. /\ worker \in [Workers -> WorkerState] /\ worker[w].pc = "idle"
      /\ worker[w].batch = {}
  BY DEF TypeInv, TypeOK, Idle
<1>1. worker' # worker
  BY <1>0
<1>2. ASSUME NEW v \in Workers, DispatchStep(v)  PROVE FALSE
  <2>1. ASSUME NEW p \in Posts, DropFromBatch(v, p), p \in worker[v].batch
        PROVE  FALSE
    BY <1>0, <2>1 DEF DropFromBatch
  <2>2. CASE StartDispatch(v)
    BY <1>0, <2>2 DEF StartDispatch, Idle
  <2>3. CASE DispatchFails(v)
    BY <1>0, <2>3 DEF DispatchFails, Idle
  <2> QED
    BY <1>2, <2>1, <2>2, <2>3 DEF DispatchStep, DispatchHeld, DispatchPost
<1>3. ASSUME NEW v \in Workers, NEW m \in queue, StartPublish(v, m)
      PROVE  worker'[w].msg.post = m.post
  BY <1>0, <1>3 DEF StartPublish, Idle
<1>4. ASSUME NEW v \in Workers, PublishStep(v),
             ~ \E m \in queue : StartPublish(v, m)
      PROVE  FALSE
  <2>1. ASSUME NEW pl \in Platforms, NEW landed \in BOOLEAN,
               NEW good \in BOOLEAN, Upload(v, pl, landed, good)
        PROVE  FALSE
    BY <1>0, <2>1 DEF Upload
  <2>2. CASE Record(v) \/ RecordFails(v) \/ CleanUp(v) \/ Finish(v)
    BY <1>0, <2>2 DEF Record, RecordFails, CleanUp, Finish, Idle
  <2>3. ASSUME NEW m \in queue, SkipPublish(v, m)  PROVE FALSE
    BY <1>1, <2>3 DEF SkipPublish
  <2> QED
    BY <1>4, <2>1, <2>2, <2>3 DEF PublishStep
<1>5. ASSUME FaultStep  PROVE FALSE
  <2>1. PICK v \in Workers : worker' = worker \/ worker' = [worker EXCEPT ![v] = Idle]
    BY <1>5 DEF FaultStep, Crash, Redeliver, CrashHoldingLease
  <2> QED
    BY <1>0, <2>1 DEF Idle
<1>6. ~UserStep /\ ~Tick /\ ~UNCHANGED vars
  BY <1>1 DEF UserStep, CreatePost, Load, CommitCancel, CommitRetry, vars,
     CommitReschedule, CommitRetarget, CommitDelete, Abandon, Writes, Tick
<1>7. PICK v \in Workers, m \in queue : StartPublish(v, m)
  <2>1. PICK v \in Workers : PublishStep(v)
    BY <1>2, <1>5, <1>6 DEF Next
  <2> QED
    BY <1>4, <2>1
<1>8. DueRow(posts[m.post])
  <2>1. m.post \in Posts
    BY DEF TypeInv, TypeOK, Message
  <2> QED
    BY <2>1 DEF EarlyInv, Underway
<1> QED
  BY <1>3, <1>7, <1>8 DEF DueRow

\* Whatever is claimed, redelivered, cancelled and retargeted: as long as no
\* request puts a post off while a task for it may be queued, a run starts only
\* when the row's scheduled_at has come, or YouTube keeps the video until then.
THEOREM NeverEarlyCorrect ==
    ASSUME NothingPutOff
    PROVE  Spec => NeverEarly
<1>1. Init => TypeInv /\ EarlyInv
  <2> SUFFICES ASSUME Init  PROVE EarlyInv
    BY InitTypeInv
  <2>1. \A p \in Posts : ~ Underway(p)
    BY ConstantsAssumption DEF Init, Underway, Idle, NoMsg
  <2> QED
    BY <2>1 DEF Init, EarlyInv
<1>2. TypeInv /\ EarlyInv /\ [Next]_vars => TypeInv' /\ EarlyInv'
  BY StepEarly, StepTypeInv
<1>3. TypeInv /\ EarlyInv /\ [Next]_vars =>
          [\A w \in Workers :
             worker[w] = Idle /\ worker'[w].pc = "uploading" =>
                 LET p == worker'[w].msg.post IN
                 posts[p].native \/ posts[p].delay = 0]_vars
  BY ClaimsAreDue
<1> QED
  BY <1>1, <1>2, <1>3, PTL DEF Spec, NeverEarly
=============================================================================
