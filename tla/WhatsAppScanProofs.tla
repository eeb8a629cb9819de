-------------------------- MODULE WhatsAppScanProofs --------------------------
(* Theorems about WhatsAppScan and MessageHistory, for every number of      *)
(* filters, groups, chats, messages, workers and devices, every window and  *)
(* every bound.                                                             *)
EXTENDS WhatsAppScan, MessageHistory, FiniteSetTheorems, TLAPS

-----------------------------------------------------------------------------
(* Typing.                                                                  *)

TypeInv ==
    /\ ScanTypeOK /\ SessionTypeOK
    /\ profileLock \in [Profiles -> Workers \cup {NoHolder}]

LEMMA IdleTyped == NoMessage \in Message /\ IdleScan \in ScanState
<1>1. PICK f \in Filters, p \in Profiles : TRUE
  BY ScanAssumption
<1>2. [filter |-> f, token |-> NoToken, force |-> FALSE] \in Message
  BY <1>1 DEF Message
<1>3. NoMessage \in Message
  BY <1>2 DEF NoMessage
<1>4. (CHOOSE q \in Profiles : TRUE) \in Profiles
  BY <1>1
<1>5. [g \in Groups |-> 0] \in [Groups -> 0..MaxMsgs]
  BY ScanAssumption
<1> QED
  BY <1>3, <1>4, <1>5 DEF IdleScan, ScanState

LEMMA InitTyped == ScannerInit => TypeInv
BY IdleTyped, ScanAssumption
   DEF ScannerInit, LocksInit, ScanInit, TypeInv, ScanTypeOK, SessionTypeOK,
       FilterState, Null, RowStatus, ProfileState, Items, Msgs

\* Requests of the owner keep the types.
LEMMA RequestTyped ==
    ASSUME TypeInv, NEW f \in Filters, FilterRequest(f)
    PROVE  TypeInv'
<1>1. /\ UNCHANGED <<sessionVars, arrived, beat, scan, scanFaults>>
      /\ ops \in Nat /\ ops' = ops + 1
  BY DEF FilterRequest, ActivateFilter, PauseFilter, DeleteFilter, TypeInv,
         ResetMessages, TriggerScan, SelectGroups, ScanUser, ScanTypeOK
<1>2. CASE ActivateFilter(f)
  BY <1>1, <1>2, ScanAssumption
     DEF ActivateFilter, TypeInv, ScanTypeOK, SessionTypeOK, sessionVars,
         FilterState, Null
<1>3. CASE PauseFilter(f)
  <2>1. filter' = [filter EXCEPT ![f] = [filter[f] EXCEPT !.status = "paused",
           !.remaining = IF filter[f].next = Null THEN Interval
                         ELSE filter[f].next]]
    BY <1>3 DEF PauseFilter, TypeInv, ScanTypeOK
  <2>2. filter[f] \in FilterState /\ Interval \in Null..Interval
    BY ScanAssumption DEF TypeInv, ScanTypeOK, Null
  <2>3. filter' \in [Filters -> FilterState]
    BY <2>1, <2>2 DEF TypeInv, ScanTypeOK, FilterState
  <2>4. lease' \in [Filters -> Tokens \cup {NoToken}]
    BY <1>3 DEF PauseFilter, TypeInv, ScanTypeOK
  <2> QED
    BY <1>1, <1>3, <2>3, <2>4
       DEF PauseFilter, TypeInv, ScanTypeOK, SessionTypeOK, sessionVars
<1>4. CASE DeleteFilter(f)
  <2>1. [status |-> "deleted", next |-> Null, remaining |-> Null]
           \in FilterState
    BY ScanAssumption DEF FilterState, Null
  <2>2. filter' \in [Filters -> FilterState]
    BY <1>4, <2>1 DEF DeleteFilter, TypeInv, ScanTypeOK
  <2>3. /\ lease' \in [Filters -> Tokens \cup {NoToken}]
        /\ group' \in [Groups -> {"unused", "live", "removed"}]
        /\ rows' \in [Items -> {"none", "pending", "rejected", "matched",
                                "forwarded"}]
    BY <1>4 DEF DeleteFilter, DropRows, TypeInv, ScanTypeOK
  <2> QED
    BY <1>1, <1>4, <2>2, <2>3
       DEF DeleteFilter, TypeInv, ScanTypeOK, SessionTypeOK, sessionVars
<1>5. CASE ResetMessages(f)
  BY <1>1, <1>5, ScanAssumption
     DEF ResetMessages, DropRows, TypeInv, ScanTypeOK, SessionTypeOK,
         sessionVars
<1>6. CASE TriggerScan(f)
  <2>1. [filter |-> f, token |-> NoToken, force |-> TRUE] \in Message
    BY DEF Message
  <2>2. queue' \subseteq Message /\ UNCHANGED <<filterVars, lease, sent>>
    BY <1>6, <2>1 DEF TriggerScan, TypeInv, ScanTypeOK
  <2> QED
    BY <1>1, <2>2
       DEF TypeInv, ScanTypeOK, SessionTypeOK, sessionVars, filterVars
<1>7. ASSUME NEW chats, SelectGroups(f, chats)  PROVE TypeInv'
  BY <1>1, <1>7
     DEF SelectGroups, TypeInv, ScanTypeOK, SessionTypeOK, sessionVars
<1> QED
  BY <1>2, <1>3, <1>4, <1>5, <1>6, <1>7 DEF FilterRequest

LEMMA BeatTyped ==
    ASSUME TypeInv, BeatFindsScans \/ BeatWorks
    PROVE  TypeInv'
<1>1. ASSUME beat' \subseteq Filters,
             lease' \in [Filters -> Tokens \cup {NoToken}],
             queue' \subseteq Message, BeatFrame
      PROVE  TypeInv'
  BY <1>1
     DEF BeatFrame, TypeInv, ScanTypeOK, SessionTypeOK, sessionVars, filterVars
<1>2. CASE BeatFindsScans
  BY <1>1, <1>2 DEF BeatFindsScans, TypeInv, ScanTypeOK
<1>3. ASSUME NEW f \in Filters, BeatSendsScan(f)  PROVE TypeInv'
  <2>1. PICK t \in Tokens :
           /\ lease' = [lease EXCEPT ![f] = t]
           /\ queue' = queue \cup
                          {[filter |-> f, token |-> t, force |-> FALSE]}
    BY <1>3 DEF BeatSendsScan, FreshTokens
  <2>2. [filter |-> f, token |-> t, force |-> FALSE] \in Message
    BY DEF Message
  <2> QED
    BY <1>1, <1>3, <2>1, <2>2 DEF BeatSendsScan, TypeInv, ScanTypeOK
<1>4. ASSUME NEW f \in Filters, BeatSkipsScan(f) \/ BeatSendFails(f)
      PROVE  TypeInv'
  BY <1>1, <1>4 DEF BeatSkipsScan, BeatSendFails, TypeInv, ScanTypeOK
<1> QED
  BY <1>2, <1>3, <1>4 DEF BeatWorks

LEMMA ReleaseTyped ==
    ASSUME TypeInv, NEW p, NEW h, ReleaseLock(p, h)
    PROVE  profileLock' \in [Profiles -> Workers \cup {NoHolder}]
BY DEF ReleaseLock, LockHeldBy, TypeInv

LEMMA EndTyped ==
    ASSUME TypeInv, NEW w \in Workers, EndScan(w)
    PROVE  /\ scan' \in [Workers -> ScanState]
           /\ lease' \in [Filters -> Tokens \cup {NoToken}]
BY IdleTyped DEF EndScan, TypeInv, ScanTypeOK

LEMMA GotoTyped ==
    ASSUME TypeInv, NEW w \in Workers,
           NEW pc \in {"open", "login", "groups", "close"}, Goto(w, pc)
    PROVE  scan' \in [Workers -> ScanState]
<1>1. scan[w] \in ScanState
  BY DEF TypeInv, ScanTypeOK
<1>2. [scan[w] EXCEPT !.pc = pc] \in ScanState
  BY <1>1 DEF ScanState
<1> QED
  BY <1>2 DEF Goto, TypeInv, ScanTypeOK

LEMMA TakeTyped ==
    ASSUME TypeInv, NEW w \in Workers, TakeScan(w)
    PROVE  TypeInv'
<1>1. PICK m \in queue : StartScan(w, m) \/ SkipScan(w, m)
  BY DEF TakeScan
<1>2. m \in Message /\ LiveOf(m.filter) \subseteq Groups
  BY DEF TypeInv, ScanTypeOK, LiveOf, Of
<1>3. CASE StartScan(w, m)
  <2>1. PICK p \in SessionFor(Bound[m.filter]) :
             scan' = [scan EXCEPT ![w] =
                        [IdleScan EXCEPT !.pc = "lock", !.msg = m, !.prof = p,
                                         !.todo = LiveOf(m.filter),
                                         !.seen = cursor]]
    BY <1>3 DEF StartScan
  <2>2. p \in Profiles
    BY <2>1 DEF SessionFor, Newest, Connected
  <2>3. [IdleScan EXCEPT !.pc = "lock", !.msg = m, !.prof = p,
                         !.todo = LiveOf(m.filter), !.seen = cursor]
           \in ScanState
    BY <1>2, <2>2, IdleTyped DEF ScanState, TypeInv, ScanTypeOK
  <2>4. scan' \in [Workers -> ScanState] /\ queue' \subseteq Message
    BY <1>3, <2>1, <2>3 DEF StartScan, TypeInv, ScanTypeOK
  <2> QED
    BY <1>3, <2>4
       DEF StartScan, TypeInv, ScanTypeOK, SessionTypeOK, sessionVars,
           filterVars
<1>4. CASE SkipScan(w, m)
  BY <1>2, <1>4
     DEF SkipScan, TypeInv, ScanTypeOK, SessionTypeOK, sessionVars, filterVars
<1> QED
  BY <1>1, <1>3, <1>4

LEMMA SetRowTyped ==
    ASSUME TypeInv, NEW p \in Profiles, NEW st \in RowStatus, SetRow(p, st)
    PROVE  row' \in [Profiles -> RowStatus]
BY DEF SetRow, TypeInv, SessionTypeOK

LEMMA StepTyped ==
    ASSUME TypeInv, NEW w \in Workers, ScanStep(w)
    PROVE  TypeInv'
<1>0. scan[w] \in ScanState /\ scan[w].prof \in Profiles
  BY DEF TypeInv, ScanTypeOK, ScanState
<1>1. CASE LockProfile(w)
  <2>1. scan' \in [Workers -> ScanState]
    BY <1>1, GotoTyped DEF LockProfile
  <2> QED
    BY <1>1, <2>1
       DEF LockProfile, AcquireLock, ScanFrame, filterVars, TypeInv,
           ScanTypeOK, SessionTypeOK
<1>2. CASE ProfileBusy(w) \/ LaunchFails(w) \/ CloseScan(w)
  <2>1. EndScan(w) /\ (ReleaseLock(scan[w].prof, w) \/ UNCHANGED profileLock)
    BY <1>2 DEF ProfileBusy, LaunchFails, CloseScan, sessionVars
  <2> QED
    BY <1>2, <2>1, EndTyped, ReleaseTyped
       DEF ProfileBusy, LaunchFails, CloseScan, ScanFrame, filterVars,
           sessionVars, TypeInv, ScanTypeOK, SessionTypeOK
<1>3. CASE MissingProfile(w)
  <2>1. row' \in [Profiles -> RowStatus]
    BY <1>0, <1>3 DEF MissingProfile, TypeInv, SessionTypeOK, RowStatus
  <2> QED
    BY <1>3, <2>1, EndTyped, ReleaseTyped
       DEF MissingProfile, ScanFrame, filterVars, TypeInv, ScanTypeOK,
           SessionTypeOK
<1>4. CASE Launch(w) \/ LoggedIn(w) \/ SlowToLoad(w)
  <2>1. scan' \in [Workers -> ScanState]
    BY <1>4, GotoTyped DEF Launch, LoggedIn, SlowToLoad
  <2> QED
    BY <1>4, <2>1
       DEF Launch, LoggedIn, SlowToLoad, ScanFrame, filterVars, sessionVars,
           TypeInv, ScanTypeOK, SessionTypeOK
<1>5. CASE QrShown(w)
  <2>1. scan' \in [Workers -> ScanState]
    BY <1>5, GotoTyped DEF QrShown
  <2>2. row' \in [Profiles -> RowStatus]
    BY <1>0, <1>5, SetRowTyped DEF QrShown, RowStatus
  <2> QED
    BY <1>5, <2>1, <2>2
       DEF QrShown, ScanFrame, filterVars, TypeInv, ScanTypeOK, SessionTypeOK
<1>6. ASSUME NEW g \in Groups, ScrapeGroup(w, g)  PROVE TypeInv'
  <2>1. scan' \in [Workers -> ScanState]
    BY <1>0, <1>6 DEF ScrapeGroup, TypeInv, ScanTypeOK, ScanState
  <2>2. Checkpoint(g) \in 0..MaxMsgs
    BY ScanAssumption DEF Checkpoint, TypeInv, ScanTypeOK
  <2>3. cursor' \in [Groups -> 0..MaxMsgs]
    BY <1>6, <2>2 DEF ScrapeGroup, TypeInv, ScanTypeOK
  <2>4. rows' \in [Items -> {"none", "pending", "rejected", "matched",
                             "forwarded"}]
    BY <1>6 DEF ScrapeGroup, TypeInv, ScanTypeOK
  <2> QED
    BY <1>6, <2>1, <2>3, <2>4
       DEF ScrapeGroup, ScanFrame, sessionVars, TypeInv, ScanTypeOK,
           SessionTypeOK
<1>7. ASSUME NEW g \in Groups, GroupNotOpened(w, g)  PROVE TypeInv'
  <2>1. scan' \in [Workers -> ScanState]
    BY <1>0, <1>7 DEF GroupNotOpened, TypeInv, ScanTypeOK, ScanState
  <2> QED
    BY <1>7, <2>1
       DEF GroupNotOpened, ScanFrame, filterVars, sessionVars, TypeInv,
           ScanTypeOK, SessionTypeOK
<1>8. CASE LoadPending(w)
  <2>1. {x \in Stored(w) : rows[x] = "pending"} \subseteq Items
    BY DEF Stored
  <2>2. scan' \in [Workers -> ScanState]
    BY <1>0, <1>8, <2>1 DEF LoadPending, TypeInv, ScanTypeOK, ScanState
  <2> QED
    BY <1>8, <2>2
       DEF LoadPending, ScanFrame, filterVars, sessionVars, TypeInv,
           ScanTypeOK, SessionTypeOK
<1>9. CASE Score(w)
  <2> DEFINE scored == [x \in Items |->
                          IF x \notin scan[w].out THEN rows[x]
                          ELSE IF Matches(x) THEN "matched" ELSE "rejected"]
  <2>1. /\ rows' = scored
        /\ scan' = [scan EXCEPT ![w].pc = "send",
                                ![w].out = ToForward(w, scored)]
        /\ UNCHANGED <<sessionVars, filter, group, cursor, lease, sent>>
        /\ ScanFrame
    BY <1>9 DEF Score
  <2>2. ToForward(w, scored) \subseteq Items
    BY DEF ToForward, Stored
  <2>3. scored \in [Items -> {"none", "pending", "rejected", "matched",
                              "forwarded"}]
    BY DEF TypeInv, ScanTypeOK
  <2> HIDE DEF scored
  <2>4. scan' \in [Workers -> ScanState]
    BY <1>0, <2>1, <2>2 DEF TypeInv, ScanTypeOK, ScanState
  <2> QED
    BY <2>1, <2>3, <2>4
       DEF ScanFrame, sessionVars, TypeInv, ScanTypeOK, SessionTypeOK
<1>10. CASE FlushRaises(w)
  <2>1. scan' = [scan EXCEPT ![w].pc = "close", ![w].out = {},
                             ![w].done = {}, ![w].last = {}]
    BY <1>10 DEF FlushRaises
  <2>2. scan' \in [Workers -> ScanState]
    BY <1>0, <2>1 DEF TypeInv, ScanTypeOK, ScanState
  <2> QED
    BY <1>10, <2>2
       DEF FlushRaises, ScanFrame, filterVars, sessionVars, TypeInv,
           ScanTypeOK, SessionTypeOK
<1>11. ASSUME NEW x \in Items, NEW s \in SendResults, Forward(w, x, s)
       PROVE  TypeInv'
  <2>1. SentNow(x, s) \subseteq Items
    BY DEF SentNow
  <2>2. scan' \in [Workers -> ScanState]
    BY <1>0, <1>11, <2>1 DEF Forward, TypeInv, ScanTypeOK, ScanState
  <2>3. sent' \in [Items -> Nat] /\ scanFaults' \in Nat
    BY <1>11 DEF Forward, TypeInv, ScanTypeOK
  <2> QED
    BY <1>11, <2>2, <2>3
       DEF Forward, filterVars, sessionVars, TypeInv, ScanTypeOK,
           SessionTypeOK
<1>12. CASE SaveForwarded(w)
  <2>1. scan' \in [Workers -> ScanState]
    BY <1>0, <1>12 DEF SaveForwarded, TypeInv, ScanTypeOK, ScanState
  <2>2. rows' \in [Items -> {"none", "pending", "rejected", "matched",
                             "forwarded"}]
    BY <1>12 DEF SaveForwarded, TypeInv, ScanTypeOK
  <2> QED
    BY <1>12, <2>1, <2>2
       DEF SaveForwarded, ScanFrame, sessionVars, TypeInv, ScanTypeOK,
           SessionTypeOK
<1>13. CASE PlanNextScan(w)
  <2>1. scan' \in [Workers -> ScanState]
    BY <1>13, GotoTyped DEF PlanNextScan
  <2>2. filter' \in [Filters -> FilterState]
    <3> DEFINE f == scan[w].msg.filter
               y == [filter[f] EXCEPT !.next = Interval, !.remaining = Null]
    <3>1. f \in Filters
      BY <1>0 DEF ScanState, Message
    <3>2. y \in FilterState
      <4>1. filter[f] \in FilterState
        BY <3>1 DEF TypeInv, ScanTypeOK
      <4>2. Interval \in Null..Interval /\ Null \in Null..Interval
        BY ScanAssumption DEF Null
      <4> QED
        BY <4>1, <4>2 DEF FilterState
    <3>3. filter' = filter \/ filter' = [filter EXCEPT ![f] = y]
      BY <1>13, <3>1 DEF PlanNextScan, TypeInv, ScanTypeOK
    <3> QED
      BY <3>1, <3>2, <3>3 DEF TypeInv, ScanTypeOK
  <2> QED
    BY <1>13, <2>1, <2>2
       DEF PlanNextScan, ScanFrame, sessionVars, TypeInv, ScanTypeOK,
           SessionTypeOK
<1> QED
  BY <1>1, <1>2, <1>3, <1>4, <1>5, <1>6, <1>7, <1>8, <1>9, <1>10, <1>11,
     <1>12, <1>13 DEF ScanStep

LEMMA WorldTyped ==
    ASSUME TypeInv,
           \/ Tick
           \/ \E w \in Workers : ScanCrash(w)
           \/ \E c \in Chats : MessageArrives(c)
           \/ \E f \in Filters : ScanLeaseExpires(f)
           \/ \E p \in Profiles : ScanLockExpires(p)
           \/ \E p \in Profiles, st \in {"blank", "missing"} :
                 ProfileLost(p, st)
    PROVE  TypeInv'
<1>1. CASE Tick
  <2>1. filter' \in [Filters -> FilterState]
    <3> DEFINE later(f) == [filter[f] EXCEPT !.next = IF @ > 0 THEN @ - 1
                                                      ELSE @]
    <3>1. ASSUME NEW f \in Filters  PROVE later(f) \in FilterState
      <4>1. filter[f] \in FilterState
        BY DEF TypeInv, ScanTypeOK
      <4> QED
        BY <4>1, ScanAssumption DEF FilterState, Null
    <3>2. filter' = [f \in Filters |-> later(f)]
      BY <1>1 DEF Tick
    <3> QED
      BY <3>1, <3>2
  <2> QED
    BY <1>1, <2>1 DEF Tick, TimeFrame, TypeInv, ScanTypeOK, SessionTypeOK
<1>2. ASSUME NEW w \in Workers, ScanCrash(w)  PROVE TypeInv'
  <2>1. scan' \in [Workers -> ScanState] /\ scan[w].msg \in Message
    BY <1>2, IdleTyped DEF ScanCrash, TypeInv, ScanTypeOK, ScanState
  <2> QED
    BY <1>2, <2>1
       DEF ScanCrash, sessionVars, filterVars, TypeInv, ScanTypeOK,
           SessionTypeOK
<1>3. ASSUME NEW c \in Chats, MessageArrives(c)  PROVE TypeInv'
  BY <1>3, ScanAssumption
     DEF MessageArrives, sessionVars, filterVars, TypeInv, ScanTypeOK,
         SessionTypeOK
<1>4. ASSUME NEW f \in Filters, ScanLeaseExpires(f)  PROVE TypeInv'
  BY <1>4 DEF ScanLeaseExpires, TimeFrame, TypeInv, ScanTypeOK, SessionTypeOK
<1>5. ASSUME NEW p \in Profiles, ScanLockExpires(p)  PROVE TypeInv'
  BY <1>5
     DEF ScanLockExpires, LockExpires, TimeFrame, TypeInv, ScanTypeOK,
         SessionTypeOK
<1>6. ASSUME NEW p \in Profiles, NEW st \in {"blank", "missing"},
             ProfileLost(p, st)
      PROVE  TypeInv'
  BY <1>6
     DEF ProfileLost, filterVars, TypeInv, ScanTypeOK, SessionTypeOK,
         ProfileState
<1> QED
  BY <1>1, <1>2, <1>3, <1>4, <1>5, <1>6

LEMMA TypeStep == TypeInv /\ [ScanNext]_ScannerVars => TypeInv'
<1> SUFFICES ASSUME TypeInv, [ScanNext]_ScannerVars  PROVE TypeInv'
  OBVIOUS
<1>1. CASE UNCHANGED ScannerVars
  BY <1>1
     DEF ScannerVars, sessionVars, scanVars, filterVars, TypeInv, ScanTypeOK,
         SessionTypeOK
<1>2. CASE ScanNext
  BY <1>2, RequestTyped, BeatTyped, TakeTyped, StepTyped, WorldTyped
     DEF ScanNext
<1> QED
  BY <1>1, <1>2

-----------------------------------------------------------------------------
(* A pause is kept: needs the types only.                                   *)

LEMMA PausedStays ==
    ASSUME TypeInv, [ScanNext]_ScannerVars, NEW f \in Filters,
           filter[f].status = "paused", filter'[f] # filter[f]
    PROVE  \/ filter'[f] = [filter[f] EXCEPT !.next = @ - 1]
           \/ ops' > ops
<1>1. ops \in Nat /\ filter \in [Filters -> FilterState]
  BY DEF TypeInv, ScanTypeOK
<1>2. ASSUME NEW e \in Filters, FilterRequest(e)  PROVE ops' > ops
  BY <1>1, <1>2
     DEF FilterRequest, ActivateFilter, PauseFilter, DeleteFilter, ScanUser,
         ResetMessages, TriggerScan, SelectGroups
<1>3. ASSUME NEW w \in Workers, PlanNextScan(w)  PROVE FALSE
  BY <1>1, <1>3 DEF PlanNextScan, MayPlan
<1>4. CASE Tick
  BY <1>1, <1>4 DEF Tick, FilterState
<1>5. ASSUME UNCHANGED filter  PROVE FALSE
  BY <1>5
<1>6. CASE BeatFindsScans \/ BeatWorks
  BY <1>5, <1>6
     DEF BeatFindsScans, BeatWorks, BeatSendsScan, BeatSkipsScan,
         BeatSendFails, BeatFrame, filterVars
<1>7. ASSUME NEW w \in Workers, TakeScan(w) \/ ScanCrash(w)  PROVE FALSE
  BY <1>5, <1>7 DEF TakeScan, StartScan, SkipScan, ScanCrash, filterVars
<1>8. ASSUME NEW w \in Workers, ScanStep(w)  PROVE FALSE
  <2>1. CASE \/ LockProfile(w) \/ ProfileBusy(w) \/ MissingProfile(w)
             \/ LaunchFails(w) \/ Launch(w) \/ LoggedIn(w) \/ QrShown(w)
             \/ SlowToLoad(w)
    BY <1>5, <2>1
       DEF LockProfile, ProfileBusy, MissingProfile, LaunchFails, Launch,
           LoggedIn, QrShown, SlowToLoad, filterVars
  <2>2. CASE \/ \E g \in Groups : ScrapeGroup(w, g) \/ GroupNotOpened(w, g)
             \/ LoadPending(w) \/ Score(w) \/ FlushRaises(w)
             \/ \E x \in Items, s \in SendResults : Forward(w, x, s)
             \/ SaveForwarded(w) \/ CloseScan(w)
    BY <1>5, <2>2
       DEF ScrapeGroup, GroupNotOpened, LoadPending, Score, FlushRaises,
           Forward, SaveForwarded, CloseScan, filterVars
  <2> QED
    BY <1>3, <1>8, <2>1, <2>2 DEF ScanStep
<1>9. CASE \/ \E c \in Chats : MessageArrives(c)
           \/ \E e \in Filters : ScanLeaseExpires(e)
           \/ \E p \in Profiles : ScanLockExpires(p)
           \/ \E p \in Profiles, st \in {"blank", "missing"} :
                 ProfileLost(p, st)
           \/ UNCHANGED ScannerVars
  BY <1>5, <1>9
     DEF MessageArrives, ScanLeaseExpires, ScanLockExpires, ProfileLost,
         ScannerVars, scanVars, filterVars
<1> QED
  BY <1>2, <1>4, <1>6, <1>7, <1>8, <1>9 DEF ScanNext

\* A scan that ends after its filter was paused leaves the paused countdown
\* alone; only time and the owner change it.
THEOREM PauseIsKeptCorrect == ScannerSpec => PauseIsKept
<1>1. TypeInv /\ [ScanNext]_ScannerVars =>
        \A f \in Filters :
           filter[f].status = "paused" /\ filter'[f] # filter[f]
              => \/ filter'[f] = [filter[f] EXCEPT !.next = @ - 1]
                 \/ ops' > ops
  BY PausedStays
<1> QED
  BY <1>1, InitTyped, TypeStep, PTL DEF ScannerSpec, PauseIsKept

-----------------------------------------------------------------------------
(* Whose profile a scan has open.                                           *)

\* What a step does to the scans: one of them ends, begins, or goes on with
\* its message and its profile.
Follows(v) ==
    /\ scan'[v].msg = scan[v].msg /\ scan'[v].prof = scan[v].prof
    /\ scan'[v].todo \subseteq scan[v].todo /\ scan'[v].seen = scan[v].seen
    /\ scan[v].pc # "idle"
Begins(v) ==
    /\ scan[v].pc = "idle" /\ scan'[v].msg \in Message
    /\ scan'[v].prof \in SessionFor(Bound[scan'[v].msg.filter])
    /\ scan'[v] = [IdleScan EXCEPT !.pc = "lock", !.msg = scan'[v].msg,
                     !.prof = scan'[v].prof,
                     !.todo = LiveOf(scan'[v].msg.filter), !.seen = cursor]
Moves(v) == scan'[v] = scan[v] \/ scan'[v] = IdleScan \/ Follows(v) \/ Begins(v)

LEMMA StepMoves ==
    ASSUME TypeInv, NEW w \in Workers, ScanStep(w)
    PROVE  \A v \in Workers :
              IF v = w THEN scan'[v] = IdleScan \/ Follows(v)
                       ELSE scan'[v] = scan[v]
<1>1. scan \in [Workers -> ScanState] /\ scan[w] \in ScanState
  BY DEF TypeInv, ScanTypeOK
<1>2. CASE \/ ProfileBusy(w) \/ MissingProfile(w) \/ LaunchFails(w)
           \/ CloseScan(w)
  BY <1>1, <1>2
     DEF ProfileBusy, MissingProfile, LaunchFails, CloseScan, EndScan
<1>3. CASE \/ LockProfile(w) \/ Launch(w) \/ LoggedIn(w) \/ QrShown(w)
           \/ SlowToLoad(w) \/ PlanNextScan(w)
  <2>1. /\ scan[w].pc # "idle"
        /\ \/ Goto(w, "open") \/ Goto(w, "login") \/ Goto(w, "groups")
           \/ Goto(w, "close")
    BY <1>3
       DEF LockProfile, Launch, LoggedIn, QrShown, SlowToLoad, PlanNextScan
  <2> QED
    BY <1>1, <2>1 DEF Goto, Follows, ScanState
<1>4. CASE \E g \in Groups : ScrapeGroup(w, g) \/ GroupNotOpened(w, g)
  BY <1>1, <1>4 DEF ScrapeGroup, GroupNotOpened, Follows, ScanState
<1>5. CASE LoadPending(w) \/ Score(w) \/ FlushRaises(w) \/ SaveForwarded(w)
  BY <1>1, <1>5
     DEF LoadPending, Score, FlushRaises, SaveForwarded, Follows, ScanState
<1>6. CASE \E x \in Items, s \in SendResults : Forward(w, x, s)
  BY <1>1, <1>6 DEF Forward, Follows, ScanState
<1> QED
  BY <1>2, <1>3, <1>4, <1>5, <1>6 DEF ScanStep

LEMMA TakeMoves ==
    ASSUME TypeInv, NEW w \in Workers, TakeScan(w)
    PROVE  \A v \in Workers : scan'[v] = scan[v] \/ (v = w /\ Begins(v))
<1>1. PICK m \in queue : StartScan(w, m) \/ SkipScan(w, m)
  BY DEF TakeScan
<1>2. m \in Message /\ scan \in [Workers -> ScanState]
  BY DEF TypeInv, ScanTypeOK
<1>3. CASE SkipScan(w, m)
  BY <1>3 DEF SkipScan
<1>4. CASE StartScan(w, m)
  <2>1. scan[w].pc = "idle"
    BY <1>4 DEF StartScan
  <2>2. PICK p \in SessionFor(Bound[m.filter]) :
             scan' = [scan EXCEPT ![w] =
                        [IdleScan EXCEPT !.pc = "lock", !.msg = m, !.prof = p,
                                         !.todo = LiveOf(m.filter),
                                         !.seen = cursor]]
    BY <1>4 DEF StartScan
  <2> DEFINE y == [IdleScan EXCEPT !.pc = "lock", !.msg = m, !.prof = p,
                                   !.todo = LiveOf(m.filter), !.seen = cursor]
  <2>3. y.msg = m /\ y.prof = p
    BY DEF IdleScan
  <2>4. scan'[w] = y /\ \A v \in Workers \ {w} : scan'[v] = scan[v]
    BY <1>2, <2>2
  <2>5. Begins(w)
    BY <1>2, <2>1, <2>3, <2>4 DEF Begins
  <2> QED
    BY <2>4, <2>5
<1> QED
  BY <1>1, <1>3, <1>4

\* Whoever has the profile open has its lock, while scans end in time.
HoldsLock == \A w \in Workers : Holding(w) => LockHeldBy(scan[w].prof, w)

LEMMA SameLock ==
    ASSUME HoldsLock, UNCHANGED <<scan, profileLock>>
    PROVE  HoldsLock'
BY DEF HoldsLock, Holding, Scanning, LockHeldBy

LEMMA LockStep ==
    ASSUME TypeInv, ~SlowScans, HoldsLock, [ScanNext]_ScannerVars
    PROVE  HoldsLock'
<1>1. /\ scan \in [Workers -> ScanState]
      /\ profileLock \in [Profiles -> Workers \cup {NoHolder}]
      /\ \A v \in Workers : scan[v].prof \in Profiles
      /\ IdleScan.pc = "idle"
  BY DEF TypeInv, ScanTypeOK, ScanState, IdleScan
<1>2. ASSUME NEW w \in Workers, ScanStep(w)  PROVE HoldsLock'
  <2>1. \A v \in Workers \ {w} : scan'[v] = scan[v]
    BY <1>2, StepMoves
  <2>2. scan'[w] = IdleScan \/ Follows(w)
    BY <1>2, StepMoves
  <2>3. CASE LockProfile(w)
    <3>1. LockFree(scan[w].prof)
          /\ profileLock' = [profileLock EXCEPT ![scan[w].prof] = w]
      BY <2>3 DEF LockProfile, AcquireLock
    <3>2. scan'[w].prof = scan[w].prof
      BY <2>3, <1>1 DEF LockProfile, Goto, ScanState
    <3> QED
      BY <1>1, <2>1, <3>1, <3>2, ScanAssumption
         DEF HoldsLock, Holding, Scanning, LockFree, LockHeldBy
  <2>4. CASE /\ scan'[w] = IdleScan
             /\ ReleaseLock(scan[w].prof, w) \/ UNCHANGED profileLock
    BY <1>1, <2>1, <2>4
       DEF HoldsLock, Holding, Scanning, ReleaseLock, LockHeldBy
  <2>5. CASE UNCHANGED profileLock /\ Holding(w) /\ Follows(w)
    BY <2>1, <2>5 DEF HoldsLock, Holding, Scanning, Follows, LockHeldBy
  <2>6. CASE \/ ProfileBusy(w) \/ MissingProfile(w) \/ LaunchFails(w)
             \/ CloseScan(w)
    BY <1>1, <2>4, <2>6
       DEF ProfileBusy, MissingProfile, LaunchFails, CloseScan, EndScan,
           sessionVars
  <2>7. ASSUME UNCHANGED profileLock, Holding(w), scan'[w] # IdleScan
        PROVE  HoldsLock'
    BY <2>2, <2>5, <2>7
  <2>8. CASE \/ Launch(w) \/ LoggedIn(w) \/ QrShown(w) \/ SlowToLoad(w)
             \/ PlanNextScan(w) \/ LoadPending(w) \/ FlushRaises(w)
    <3>1. Holding(w) /\ UNCHANGED profileLock
      BY <2>8
         DEF Launch, LoggedIn, QrShown, SlowToLoad, PlanNextScan, LoadPending,
             FlushRaises, Holding, Scanning, sessionVars
    <3>2. scan'[w].pc # "idle"
      BY <1>1, <2>8
         DEF Launch, LoggedIn, QrShown, SlowToLoad, PlanNextScan, LoadPending,
             FlushRaises, Goto, ScanState
    <3> QED
      BY <1>1, <2>7, <3>1, <3>2
  <2>9. CASE \/ \E g \in Groups : ScrapeGroup(w, g) \/ GroupNotOpened(w, g)
             \/ Score(w) \/ SaveForwarded(w)
             \/ \E x \in Items, s \in SendResults : Forward(w, x, s)
    <3>1. Holding(w) /\ UNCHANGED profileLock
      BY <2>9
         DEF ScrapeGroup, GroupNotOpened, Score, SaveForwarded, Forward,
             Holding, Scanning, sessionVars
    <3>2. CASE \E g \in Groups : ScrapeGroup(w, g) \/ GroupNotOpened(w, g)
      <4>1. scan'[w].pc # "idle"
        BY <1>1, <3>2 DEF ScrapeGroup, GroupNotOpened, ScanState
      <4> QED
        BY <1>1, <2>7, <3>1, <4>1
    <3>3. CASE Score(w) \/ SaveForwarded(w)
      <4>1. scan'[w].pc # "idle"
        BY <1>1, <3>3 DEF Score, SaveForwarded, ScanState
      <4> QED
        BY <1>1, <2>7, <3>1, <4>1
    <3>4. CASE \E x \in Items, s \in SendResults : Forward(w, x, s)
      <4>1. scan'[w].pc # "idle"
        BY <1>1, <3>4 DEF Forward, ScanState
      <4> QED
        BY <1>1, <2>7, <3>1, <4>1
    <3> QED
      BY <2>9, <3>2, <3>3, <3>4
  <2> QED
    BY <1>2, <2>3, <2>6, <2>8, <2>9 DEF ScanStep
<1>3. ASSUME NEW w \in Workers, TakeScan(w)  PROVE HoldsLock'
  <2>1. UNCHANGED profileLock
    BY <1>3 DEF TakeScan, StartScan, SkipScan, sessionVars
  <2>2. ASSUME NEW v \in Workers, Begins(v)  PROVE scan'[v].pc = "lock"
    BY <2>2 DEF Begins, IdleScan
  <2>3. \A v \in Workers : scan'[v] = scan[v] \/ scan'[v].pc = "lock"
    BY <1>3, <2>2, TakeMoves
  <2> QED
    BY <2>1, <2>3 DEF HoldsLock, Holding, Scanning, LockHeldBy
<1>4. ASSUME NEW w \in Workers, ScanCrash(w)  PROVE HoldsLock'
  BY <1>1, <1>4
     DEF ScanCrash, HoldsLock, Holding, Scanning, LockHeldBy, sessionVars
<1>5. ASSUME NEW p \in Profiles, ScanLockExpires(p)  PROVE HoldsLock'
  BY <1>1, <1>5
     DEF ScanLockExpires, LockExpires, TimeFrame, HoldsLock, Holding,
         Scanning, LockHeldBy
<1>6. CASE \E f \in Filters : FilterRequest(f)
  BY <1>6, SameLock
     DEF FilterRequest, ActivateFilter, PauseFilter, DeleteFilter, ScanUser,
         ResetMessages, TriggerScan, SelectGroups, sessionVars
<1>7. CASE \/ BeatFindsScans \/ BeatWorks \/ Tick
           \/ \E c \in Chats : MessageArrives(c)
           \/ \E f \in Filters : ScanLeaseExpires(f)
           \/ \E p \in Profiles, st \in {"blank", "missing"} :
                 ProfileLost(p, st)
           \/ UNCHANGED ScannerVars
  BY <1>7, SameLock
     DEF BeatFindsScans, BeatWorks, BeatSendsScan, BeatSkipsScan,
         BeatSendFails, BeatFrame, Tick, TimeFrame, MessageArrives,
         ScanLeaseExpires, ProfileLost, ScannerVars, scanVars, sessionVars
<1> QED
  BY <1>2, <1>3, <1>4, <1>5, <1>6, <1>7 DEF ScanNext

LEMMA LockMeansOne == TypeInv /\ HoldsLock => OneScanPerProfile
BY DEF OneScanPerProfile, HoldsLock, Holding, LockHeldBy

\* Two scans never have one profile open: filters share a device, manual
\* scans overlap dispatched ones, and crashed scans come back.
THEOREM OneScanPerProfileCorrect ==
    ASSUME ~SlowScans  PROVE ScannerSpec => []OneScanPerProfile
<1>1. ScannerInit => HoldsLock
  BY DEF ScannerInit, ScanInit, HoldsLock, Holding, Scanning, IdleScan
<1>2. TypeInv /\ HoldsLock /\ [ScanNext]_ScannerVars => HoldsLock'
  BY LockStep
<1> QED
  BY <1>1, <1>2, InitTyped, TypeStep, LockMeansOne, PTL DEF ScannerSpec

-----------------------------------------------------------------------------
(* What a checkpoint covers.                                                *)

Covered(g, c) == \A k \in 1..c : rows[<<g, k>>] # "none"

CoveredNext(g, c) == \A k \in 1..c : rows'[<<g, k>>] # "none"

\* No checkpoint is ahead of its chat, and a row not used yet has none.
Cursors ==
    \A g \in Groups :
       /\ cursor[g] <= arrived[ChatOf[g]]
       /\ group[g] = "unused" => cursor[g] = 0
       /\ group[g] = "live" => Covered(g, cursor[g])

\* A scan's own copies of the checkpoints are no worse than the rows'.
Reading ==
    \A w \in Workers : scan[w].pc # "idle" =>
       \A g \in scan[w].todo :
          /\ group[g] # "unused" /\ FilterOf[g] = scan[w].msg.filter
          /\ scan[w].seen[g] <= arrived[ChatOf[g]]
          /\ group[g] = "live" => Covered(g, scan[w].seen[g])

LEMMA ReadTypes ==
    ASSUME TypeInv
    PROVE  /\ \A g \in Groups : /\ cursor[g] \in 0..MaxMsgs
                                /\ arrived[ChatOf[g]] \in 0..MaxMsgs
           /\ \A w \in Workers : /\ scan[w].todo \subseteq Groups
                                 /\ \A g \in Groups :
                                       scan[w].seen[g] \in 0..MaxMsgs
           /\ \A g \in Groups, k \in 1..MaxMsgs : <<g, k>> \in Items
BY ScanAssumption DEF TypeInv, ScanTypeOK, ScanState, Items, Msgs

LEMMA BeginsWhole ==
    ASSUME NEW v \in Workers, Begins(v)
    PROVE  /\ scan'[v].todo = LiveOf(scan'[v].msg.filter)
           /\ scan'[v].seen = cursor /\ scan'[v].pc = "lock"
           /\ scan'[v].out = {} /\ scan'[v].done = {} /\ scan'[v].last = {}
BY DEF Begins, IdleScan

\* The messages of a group stay, if it goes on being watched; a group that has
\* been used is not used again.
Stay(g) ==
    /\ group'[g] = "live" =>
          \A k \in Msgs : rows[<<g, k>>] # "none" => rows'[<<g, k>>] # "none"
    /\ group[g] # "unused" =>
          group'[g] # "unused" /\ (group'[g] = "live" => group[g] = "live")
ChatsGrow ==
    /\ \A c \in Chats : arrived[c] <= arrived'[c]
    /\ arrived' \in [Chats -> 0..MaxMsgs]

Cursored(g) ==
    /\ cursor'[g] <= arrived'[ChatOf[g]]
    /\ group'[g] = "unused" => cursor'[g] = 0
    /\ group'[g] = "live" => CoveredNext(g, cursor'[g])

LEMMA CursorStays ==
    ASSUME TypeInv, Cursors, ChatsGrow, NEW g \in Groups, Stay(g),
           cursor'[g] = cursor[g],
           group[g] = "unused" \/ group'[g] # "unused"
    PROVE  Cursored(g)
<1>1. /\ ChatOf[g] \in Chats /\ cursor[g] \in 0..MaxMsgs
      /\ arrived[ChatOf[g]] \in 0..MaxMsgs
      /\ arrived'[ChatOf[g]] \in 0..MaxMsgs
  BY ReadTypes, ScanAssumption DEF ChatsGrow
<1>2. cursor'[g] <= arrived'[ChatOf[g]]
  BY <1>1, ScanAssumption DEF Cursors, ChatsGrow
<1>3. \A k \in 1..cursor[g] : k \in Msgs
  BY <1>1, ScanAssumption DEF Msgs
<1>4. group[g] = "unused" => cursor[g] = 0
  BY DEF Cursors
<1>5. ASSUME group'[g] = "live"  PROVE CoveredNext(g, cursor'[g])
  <2>1. CASE group[g] = "unused"
    BY <1>4, <2>1 DEF CoveredNext
  <2>2. CASE group[g] # "unused"
    BY <1>3, <1>5, <2>2 DEF Stay, Cursors, Covered, CoveredNext
  <2> QED
    BY <2>1, <2>2
<1> QED
  BY <1>2, <1>4, <1>5 DEF Cursored

LEMMA AllCursored == (\A g \in Groups : Cursored(g)) => Cursors'
BY DEF Cursored, Cursors, Covered, CoveredNext

Reads(v, g) ==
    /\ group'[g] # "unused" /\ FilterOf[g] = scan'[v].msg.filter
    /\ scan'[v].seen[g] <= arrived'[ChatOf[g]]
    /\ group'[g] = "live" => CoveredNext(g, scan'[v].seen[g])

LEMMA FollowerReads ==
    ASSUME TypeInv, Reading, ChatsGrow, NEW v \in Workers,
           scan'[v] = scan[v] \/ Follows(v), scan'[v].pc # "idle",
           NEW g \in scan'[v].todo, Stay(g)
    PROVE  Reads(v, g)
<1>1. /\ g \in scan[v].todo /\ scan[v].pc # "idle"
      /\ scan'[v].msg = scan[v].msg /\ scan'[v].seen = scan[v].seen
  BY DEF Follows
<1>2. g \in Groups /\ scan[v].seen[g] \in 0..MaxMsgs
  BY <1>1, ReadTypes
<1>3. /\ ChatOf[g] \in Chats /\ arrived[ChatOf[g]] \in 0..MaxMsgs
      /\ arrived'[ChatOf[g]] \in 0..MaxMsgs
  BY <1>2, ReadTypes, ScanAssumption DEF ChatsGrow
<1>4. scan[v].seen[g] <= arrived'[ChatOf[g]]
  BY <1>1, <1>2, <1>3, ScanAssumption DEF Reading, ChatsGrow
<1>5. \A k \in 1..scan[v].seen[g] : k \in Msgs
  BY <1>2, ScanAssumption DEF Msgs
<1> QED
  BY <1>1, <1>4, <1>5 DEF Reading, Reads, Stay, Covered, CoveredNext

LEMMA BeginnerReads ==
    ASSUME NEW v \in Workers, Begins(v), Cursors', UNCHANGED <<group, cursor>>,
           NEW g \in scan'[v].todo
    PROVE  Reads(v, g)
<1>1. g \in LiveOf(scan'[v].msg.filter) /\ scan'[v].seen = cursor
  BY BeginsWhole
<1>2. g \in Groups /\ group[g] = "live" /\ FilterOf[g] = scan'[v].msg.filter
  BY <1>1 DEF LiveOf, Of
<1> QED
  BY <1>1, <1>2 DEF Cursors, Reads, Covered, CoveredNext

LEMMA AllRead ==
    (\A v \in Workers : scan'[v].pc # "idle" =>
        \A g \in scan'[v].todo : Reads(v, g)) => Reading'
BY DEF Reads, Reading, Covered, CoveredNext

\* Steps that touch neither groups nor checkpoints.
LEMMA QuietReads ==
    ASSUME TypeInv, Cursors, Reading, ChatsGrow, UNCHANGED <<group, cursor>>,
           \A g \in Groups : Stay(g), \A v \in Workers : Moves(v),
           scan' \in [Workers -> ScanState]
    PROVE  Cursors' /\ Reading'
<1>1. Cursors'
  BY CursorStays, AllCursored
<1>2. ASSUME NEW v \in Workers, scan'[v].pc # "idle", NEW g \in scan'[v].todo
      PROVE  Reads(v, g)
  <2>1. g \in Groups
    BY DEF ScanState
  <2>2. scan'[v] # IdleScan
    BY <1>2 DEF IdleScan
  <2> QED
    BY <1>1, <1>2, <2>1, <2>2, FollowerReads, BeginnerReads DEF Moves
<1> QED
  BY <1>1, <1>2, AllRead

LEMMA ScrapeCovers ==
    ASSUME TypeInv, Cursors, Reading, MaxMsgs <= Limit,
           NEW w \in Workers, NEW g \in Groups, ScrapeGroup(w, g)
    PROVE  Cursors' /\ Reading'
<1>1. PICK new \in Scraped(w, g) :
         /\ cursor' = IF new # {} /\ group[g] = "live"
                      THEN [cursor EXCEPT ![g] = Checkpoint(g)] ELSE cursor
         /\ rows' = [x \in Items |-> IF x[1] = g /\ x[2] \in new
                                        /\ rows[x] = "none"
                                     THEN "pending" ELSE rows[x]]
  BY DEF ScrapeGroup
<1>2. /\ UNCHANGED <<group, arrived>> /\ scan[w].pc = "groups"
      /\ g \in scan[w].todo
  BY DEF ScrapeGroup, ScanFrame
<1>3. \A x \in Items : rows[x] # "none" => rows'[x] # "none"
  BY <1>1
<1>4. (\A h \in Groups : Stay(h)) /\ ChatsGrow
  BY <1>2, <1>3, ScanAssumption
     DEF Stay, ChatsGrow, Items, TypeInv, ScanTypeOK
<1>5. ASSUME new # {}, group[g] = "live"  PROVE Cursors'
  <2>1. /\ cursor'[g] = arrived[ChatOf[g]]
        /\ \A h \in Groups \ {g} : cursor'[h] = cursor[h]
    BY <1>1, <1>5 DEF Checkpoint, TypeInv, ScanTypeOK
  <2>2. ASSUME NEW k \in 1..arrived[ChatOf[g]]
        PROVE  rows'[<<g, k>>] # "none"
    <3>1. /\ arrived[ChatOf[g]] \in 0..MaxMsgs /\ k \in 1..MaxMsgs
          /\ <<g, k>> \in Items /\ scan[w].seen[g] \in 0..MaxMsgs
      BY ReadTypes, ScanAssumption
    <3>2. CASE k <= scan[w].seen[g]
      <4>1. rows[<<g, k>>] # "none"
        BY <1>2, <1>5, <3>1, <3>2, ScanAssumption DEF Reading, Covered
      <4> QED
        BY <1>3, <3>1, <4>1
    <3>3. CASE k > scan[w].seen[g]
      <4>1. k \in new
        BY <3>1, <3>3, ScanAssumption DEF Scraped, Newer
      <4>2. <<g, k>>[1] = g /\ <<g, k>>[2] = k
        OBVIOUS
      <4> QED
        BY <1>1, <3>1, <4>1, <4>2
    <3> QED
      BY <3>1, <3>2, <3>3, ScanAssumption
  <2>3. arrived[ChatOf[g]] \in Nat
    BY ReadTypes, ScanAssumption
  <2>4. Cursored(g)
    BY <1>2, <1>5, <2>1, <2>2, <2>3 DEF Cursored, CoveredNext
  <2> QED
    BY <1>2, <1>4, <2>1, <2>4, CursorStays, AllCursored
<1>6. ASSUME ~(new # {} /\ group[g] = "live")  PROVE Cursors'
  BY <1>1, <1>2, <1>4, <1>6, CursorStays, AllCursored
<1>7. Cursors'
  BY <1>5, <1>6
<1>8. ASSUME NEW v \in Workers, scan'[v].pc # "idle", NEW h \in scan'[v].todo
      PROVE  Reads(v, h)
  <2>1. ScanStep(w) /\ scan'[w] # IdleScan
    <3>1. scan[w] \in ScanState
      BY DEF TypeInv, ScanTypeOK
    <3> QED
      BY <1>2, <3>1 DEF ScanStep, ScrapeGroup, IdleScan, TypeInv, ScanTypeOK,
                        ScanState
  <2>2. scan'[v] = scan[v] \/ Follows(v)
    BY <2>1, StepMoves
  <2>3. h \in Groups
    BY <2>2, ReadTypes DEF Follows
  <2> QED
    BY <1>4, <1>8, <2>2, <2>3, FollowerReads
<1> QED
  BY <1>7, <1>8, AllRead

LEMMA SelectCovers ==
    ASSUME TypeInv, Cursors, Reading, NEW f \in Filters, NEW chats,
           SelectGroups(f, chats)
    PROVE  Cursors' /\ Reading'
<1>1. PICK fresh \in SUBSET {g \in Of(f) : group[g] = "unused"} :
         group' = [g \in Groups |->
              CASE g \in fresh -> "live"
                [] g \in LiveOf(f) /\ ChatOf[g] \notin chats -> "removed"
                [] OTHER -> group[g]]
  BY DEF SelectGroups
<1>2. UNCHANGED <<cursor, rows, arrived, scan>>
  BY DEF SelectGroups, ScanUser
<1>3. ASSUME NEW g \in Groups
      PROVE  Stay(g) /\ (group[g] = "unused" \/ group'[g] # "unused")
  BY <1>1, <1>2, <1>3 DEF Stay, LiveOf
<1>4. ChatsGrow
  BY <1>2, ScanAssumption DEF ChatsGrow, TypeInv, ScanTypeOK
<1>5. Cursors'
  BY <1>2, <1>3, <1>4, CursorStays, AllCursored
<1>6. ASSUME NEW v \in Workers, scan'[v].pc # "idle", NEW g \in scan'[v].todo
      PROVE  Reads(v, g)
  <2>1. scan'[v] = scan[v] /\ g \in Groups
    BY <1>2, <1>6, ReadTypes
  <2> QED
    BY <1>3, <1>4, <1>6, <2>1, FollowerReads
<1> QED
  BY <1>5, <1>6, AllRead

LEMMA DeleteCovers ==
    ASSUME TypeInv, Cursors, Reading, NEW f \in Filters, DeleteFilter(f)
    PROVE  Cursors' /\ Reading'
<1>1. /\ rows' = [x \in Items |-> IF FilterOf[x[1]] = f THEN "none" ELSE rows[x]]
      /\ group' = [g \in Groups |-> IF g \in LiveOf(f) THEN "removed"
                                    ELSE group[g]]
      /\ UNCHANGED <<cursor, arrived, scan>>
  BY DEF DeleteFilter, DropRows, ScanUser
<1>2. ASSUME NEW g \in Groups
      PROVE  Stay(g) /\ (group[g] = "unused" \/ group'[g] # "unused")
  <2>1. group[g] = "unused" \/ group'[g] # "unused"
    BY <1>1, <1>2
  <2>2. /\ group'[g] = "live" => group[g] = "live" /\ FilterOf[g] # f
        /\ group[g] # "unused" => group'[g] # "unused"
    BY <1>1, <1>2 DEF LiveOf, Of
  <2>3. ASSUME NEW k \in Msgs, FilterOf[g] # f
        PROVE  rows'[<<g, k>>] = rows[<<g, k>>]
    <3>1. <<g, k>> \in Items /\ <<g, k>>[1] = g
      BY <1>2 DEF Items
    <3> QED
      BY <1>1, <2>3, <3>1
  <2> QED
    BY <2>1, <2>2, <2>3 DEF Stay
<1>3. ChatsGrow
  BY <1>1, ScanAssumption DEF ChatsGrow, TypeInv, ScanTypeOK
<1>4. Cursors'
  BY <1>1, <1>2, <1>3, CursorStays, AllCursored
<1>5. ASSUME NEW v \in Workers, scan'[v].pc # "idle", NEW g \in scan'[v].todo
      PROVE  Reads(v, g)
  <2>1. scan'[v] = scan[v] /\ g \in Groups
    BY <1>1, <1>5, ReadTypes
  <2> QED
    BY <1>2, <1>3, <1>5, <2>1, FollowerReads
<1> QED
  BY <1>4, <1>5, AllRead

LEMMA ResetCovers ==
    ASSUME TypeInv, ~ResetsRace, Cursors, Reading, NEW f \in Filters,
           ResetMessages(f)
    PROVE  Cursors' /\ Reading'
<1>1. /\ rows' = [x \in Items |-> IF FilterOf[x[1]] = f THEN "none" ELSE rows[x]]
      /\ cursor' = [g \in Groups |-> IF g \in LiveOf(f) THEN 0 ELSE cursor[g]]
      /\ UNCHANGED <<group, arrived, scan>>
      /\ \A w \in Workers : scan[w].pc # "idle" => scan[w].msg.filter # f
  BY DEF ResetMessages, DropRows, ScanUser
<1>2. ASSUME NEW g \in Groups, g \notin LiveOf(f)  PROVE Stay(g)
  <2>1. group[g] = "live" => FilterOf[g] # f
    BY <1>2 DEF LiveOf, Of
  <2>2. ASSUME NEW k \in Msgs, FilterOf[g] # f
        PROVE  rows'[<<g, k>>] = rows[<<g, k>>]
    <3>1. <<g, k>> \in Items /\ <<g, k>>[1] = g
      BY <1>2 DEF Items
    <3> QED
      BY <1>1, <2>2, <3>1
  <2> QED
    BY <1>1, <2>1, <2>2 DEF Stay
<1>3. ChatsGrow
  BY <1>1, ScanAssumption DEF ChatsGrow, TypeInv, ScanTypeOK
<1>4. ASSUME NEW g \in Groups  PROVE Cursored(g)
  <2>1. CASE g \in LiveOf(f)
    <3>1. cursor'[g] = 0 /\ arrived'[ChatOf[g]] \in 0..MaxMsgs
      BY <1>1, <2>1, ReadTypes
    <3> QED
      BY <3>1, ScanAssumption DEF Cursored, CoveredNext
  <2>2. CASE g \notin LiveOf(f)
    BY <1>1, <1>2, <1>3, <1>4, <2>2, CursorStays
  <2> QED
    BY <2>1, <2>2
<1>5. ASSUME NEW v \in Workers, scan'[v].pc # "idle", NEW g \in scan'[v].todo
      PROVE  Reads(v, g)
  <2>1. scan'[v] = scan[v] /\ g \in Groups /\ FilterOf[g] # f
    BY <1>1, <1>5, ReadTypes DEF Reading
  <2>2. g \notin LiveOf(f)
    BY <2>1 DEF LiveOf, Of
  <2> QED
    BY <1>2, <1>3, <1>5, <2>1, <2>2, FollowerReads
<1> QED
  BY <1>4, <1>5, AllCursored, AllRead

LEMMA AllMoves ==
    ASSUME TypeInv, [ScanNext]_ScannerVars
    PROVE  \A v \in Workers : Moves(v)
<1>1. UNCHANGED scan => \A v \in Workers : Moves(v)
  BY DEF Moves
<1>2. ASSUME NEW w \in Workers, ScanStep(w) \/ TakeScan(w)
      PROVE  \A v \in Workers : Moves(v)
  BY <1>2, StepMoves, TakeMoves DEF Moves
<1>3. ASSUME NEW w \in Workers, ScanCrash(w)
      PROVE  \A v \in Workers : Moves(v)
  BY <1>3 DEF ScanCrash, Moves, TypeInv, ScanTypeOK
<1>4. CASE \/ \E f \in Filters : FilterRequest(f)
           \/ BeatFindsScans \/ BeatWorks \/ Tick
           \/ \E c \in Chats : MessageArrives(c)
           \/ \E f \in Filters : ScanLeaseExpires(f)
           \/ \E p \in Profiles : ScanLockExpires(p)
           \/ \E p \in Profiles, st \in {"blank", "missing"} :
                 ProfileLost(p, st)
           \/ UNCHANGED ScannerVars
  BY <1>1, <1>4
     DEF FilterRequest, ActivateFilter, PauseFilter, DeleteFilter, ScanUser,
         ResetMessages, TriggerScan, SelectGroups, BeatFindsScans, BeatWorks,
         BeatSendsScan, BeatSkipsScan, BeatSendFails, BeatFrame, Tick,
         TimeFrame, MessageArrives, ScanLeaseExpires, ScanLockExpires,
         ProfileLost, ScannerVars, scanVars
<1> QED
  BY <1>2, <1>3, <1>4 DEF ScanNext

LEMMA RowsOnlyReads ==
    ASSUME TypeInv, Cursors, Reading, [ScanNext]_ScannerVars,
           UNCHANGED <<group, cursor>>,
           \A x \in Items : rows[x] # "none" => rows'[x] # "none",
           \A c \in Chats : arrived[c] <= arrived'[c]
    PROVE  Cursors' /\ Reading'
<1>1. TypeInv'
  BY TypeStep
<1>2. ChatsGrow /\ scan' \in [Workers -> ScanState]
  BY <1>1 DEF ChatsGrow, TypeInv, ScanTypeOK
<1>3. \A g \in Groups : Stay(g)
  BY DEF Stay, Items
<1> QED
  BY <1>2, <1>3, AllMoves, QuietReads

LEMMA SameChats ==
    ASSUME TypeInv, UNCHANGED arrived
    PROVE  \A c \in Chats : arrived[c] <= arrived'[c]
BY ScanAssumption DEF TypeInv, ScanTypeOK

LEMMA ReadStep ==
    ASSUME TypeInv, ~ResetsRace, MaxMsgs <= Limit, Cursors, Reading,
           [ScanNext]_ScannerVars
    PROVE  Cursors' /\ Reading'
<1>1. ASSUME UNCHANGED <<group, cursor, rows, arrived>>
      PROVE  Cursors' /\ Reading'
  BY <1>1, SameChats, RowsOnlyReads
<1>2. ASSUME NEW f \in Filters, FilterRequest(f)
      PROVE  Cursors' /\ Reading'
  <2>1. CASE ActivateFilter(f) \/ PauseFilter(f) \/ TriggerScan(f)
    BY <1>1, <2>1
       DEF ActivateFilter, PauseFilter, TriggerScan, ScanUser, filterVars
  <2> QED
    BY <1>2, <2>1, SelectCovers, DeleteCovers, ResetCovers DEF FilterRequest
<1>3. ASSUME NEW w \in Workers, ScanStep(w)  PROVE Cursors' /\ Reading'
  <2>1. CASE \/ LockProfile(w) \/ ProfileBusy(w) \/ MissingProfile(w)
             \/ LaunchFails(w) \/ Launch(w) \/ LoggedIn(w) \/ QrShown(w)
             \/ SlowToLoad(w)
    BY <1>1, <2>1
       DEF LockProfile, ProfileBusy, MissingProfile, LaunchFails, Launch,
           LoggedIn, QrShown, SlowToLoad, filterVars, ScanFrame
  <2>2. CASE \/ \E g \in Groups : GroupNotOpened(w, g)
             \/ LoadPending(w) \/ FlushRaises(w) \/ PlanNextScan(w)
             \/ CloseScan(w)
             \/ \E x \in Items, s \in SendResults : Forward(w, x, s)
    BY <1>1, <2>2
       DEF GroupNotOpened, LoadPending, FlushRaises, Forward, PlanNextScan,
           CloseScan, filterVars, ScanFrame
  <2>3. CASE \E g \in Groups : ScrapeGroup(w, g)
    BY <2>3, ScrapeCovers
  <2>4. CASE Score(w) \/ SaveForwarded(w)
    <3>1. UNCHANGED <<group, cursor, arrived>>
      BY <2>4 DEF Score, SaveForwarded, ScanFrame
    <3>2. \A x \in Items : rows[x] # "none" => rows'[x] # "none"
      BY <2>4 DEF Score, SaveForwarded
    <3> QED
      BY <3>1, <3>2, SameChats, RowsOnlyReads
  <2> QED
    BY <1>3, <2>1, <2>2, <2>3, <2>4 DEF ScanStep
<1>4. ASSUME NEW c \in Chats, MessageArrives(c)
      PROVE  Cursors' /\ Reading'
  <2>1. UNCHANGED <<group, cursor, rows>>
    BY <1>4 DEF MessageArrives, filterVars
  <2>2. \A e \in Chats : arrived[e] <= arrived'[e]
    BY <1>4, ScanAssumption DEF MessageArrives, TypeInv, ScanTypeOK
  <2> QED
    BY <2>1, <2>2, RowsOnlyReads
<1>5. CASE \/ BeatFindsScans \/ BeatWorks \/ Tick
           \/ \E w \in Workers : TakeScan(w) \/ ScanCrash(w)
           \/ \E f \in Filters : ScanLeaseExpires(f)
           \/ \E p \in Profiles : ScanLockExpires(p)
           \/ \E p \in Profiles, st \in {"blank", "missing"} :
                 ProfileLost(p, st)
           \/ UNCHANGED ScannerVars
  BY <1>1, <1>5
     DEF BeatFindsScans, BeatWorks, BeatSendsScan, BeatSkipsScan,
         BeatSendFails, BeatFrame, Tick, TimeFrame, TakeScan, StartScan,
         SkipScan, ScanCrash, ScanLeaseExpires, ScanLockExpires, ProfileLost,
         ScannerVars, scanVars, filterVars
<1> QED
  BY <1>2, <1>3, <1>4, <1>5 DEF ScanNext

\* The checkpoint never passes a message that is not stored, whatever scans,
\* crashes, pauses, deletions and changed selections meet, as long as no more
\* messages arrive than one look reads and nobody resets under a scan.
THEOREM CheckpointCoversCorrect ==
    ASSUME ~ResetsRace  PROVE ScannerSpec => []CheckpointCovers
<1> DEFINE ReadInv == MaxMsgs <= Limit => Cursors /\ Reading
<1>1. ScannerInit => ReadInv
  <2> SUFFICES ASSUME ScannerInit  PROVE Cursors /\ Reading
    OBVIOUS
  <2>1. \A g \in Groups : cursor[g] = 0 /\ arrived[ChatOf[g]] = 0
    BY ScanAssumption DEF ScannerInit, ScanInit
  <2>2. Cursors
    BY <2>1 DEF Cursors, Covered
  <2> QED
    BY <2>2 DEF ScannerInit, ScanInit, Reading, IdleScan
<1>2. TypeInv /\ ReadInv /\ [ScanNext]_ScannerVars => ReadInv'
  BY ReadStep
<1>3. ReadInv => CheckpointCovers
  BY DEF CheckpointCovers, Cursors, Covered
<1> QED
  BY <1>1, <1>2, <1>3, InitTyped, TypeStep, PTL DEF ScannerSpec

-----------------------------------------------------------------------------
(* How often a message is forwarded.                                        *)

Carried(w) == scan[w].done \cup scan[w].last
InFlight(x) == \E w \in Workers : x \in Carried(w)
Owner(x)   == FilterOf[x[1]]
Deleted(f) == filter[f].status = "deleted"

\* The filter's device, for a filter that names it or an owner with one only.
OneDevice ==
    \A f \in Filters : Bound[f] \in Profiles \/ \A p, q \in Profiles : p = q
OwnDevice ==
    \A w \in Workers :
       scan[w].pc # "idle" /\ Bound[scan[w].msg.filter] \in Profiles
          => scan[w].prof = Bound[scan[w].msg.filter]

\* A deleted filter keeps no message.
Gone == \A x \in Items : Deleted(Owner(x)) => rows[x] = "none"

\* What a scan has in hand: messages of its filter, in its transaction, which
\* nobody else marks or deletes but with the filter.
Outbox(w) ==
    /\ scan[w].pc # "send" => Carried(w) = {}
    /\ scan[w].pc \notin {"score", "send"} => scan[w].out = {}
    /\ scan[w].out \cap Carried(w) = {}
    /\ \A x \in scan[w].out \cup Carried(w) : Owner(x) = scan[w].msg.filter
    /\ \A x \in scan[w].out : \/ rows[x] # "forwarded" /\ rows[x] # "none"
                              \/ Deleted(Owner(x))
    /\ \A x \in scan[w].last : rows[x] # "none" \/ Deleted(Owner(x))
    /\ \A x \in scan[w].done : rows[x] # "none"
    /\ scan[w].pc = "send" => \A x \in scan[w].out : sent[x] <= scanFaults

\* A message that is neither marked nor about to be was not forwarded, but for
\* faults.
Owed ==
    \A x \in Items :
       ~Deleted(Owner(x)) /\ rows[x] # "forwarded" /\ ~InFlight(x)
          => sent[x] <= scanFaults

SendInv == /\ Gone /\ Owed /\ ForwardedOncePerFault
           /\ \A w \in Workers : Outbox(w)

LEMMA SendTypes ==
    ASSUME TypeInv
    PROVE  /\ \A x \in Items : sent[x] \in Nat /\ Owner(x) \in Filters
           /\ scanFaults \in Nat
           /\ \A w \in Workers :
                 /\ scan[w].out \subseteq Items /\ Carried(w) \subseteq Items
                 /\ scan[w].msg.filter \in Filters
BY ScanAssumption
   DEF TypeInv, ScanTypeOK, ScanState, Message, Items, Owner, Carried

\* Another scan of the same filter would need the same profile.
LEMMA Alone ==
    ASSUME TypeInv, OneDevice, OwnDevice, HoldsLock,
           NEW v \in Workers, NEW w \in Workers, Holding(v), Holding(w),
           scan[v].msg.filter = scan[w].msg.filter
    PROVE  v = w
<1>1. scan[v].prof \in Profiles /\ scan[w].prof \in Profiles
      /\ scan[v].msg.filter \in Filters
  BY SendTypes DEF TypeInv, ScanTypeOK, ScanState
<1>2. scan[v].prof = scan[w].prof
  BY <1>1 DEF OneDevice, OwnDevice, Holding, Scanning
<1> QED
  BY <1>2 DEF HoldsLock, LockHeldBy

LEMMA DeviceStep ==
    ASSUME TypeInv, OwnDevice, [ScanNext]_ScannerVars
    PROVE  OwnDevice'
<1> SUFFICES ASSUME NEW w \in Workers, scan'[w].pc # "idle",
                    Bound[scan'[w].msg.filter] \in Profiles
             PROVE  scan'[w].prof = Bound[scan'[w].msg.filter]
  BY DEF OwnDevice
<1>1. CASE Begins(w)
  BY <1>1 DEF Begins, SessionFor
<1>2. CASE scan'[w] = scan[w] \/ Follows(w)
  BY <1>2 DEF Follows, OwnDevice
<1>3. scan'[w] # IdleScan
  BY DEF IdleScan
<1> QED
  BY <1>1, <1>2, <1>3, AllMoves DEF Moves

\* Steps that leave messages and their counts alone: a scan may let go of what
\* it has in hand while nothing of it is sent.
Lets(v) ==
    /\ Carried(v) = {} /\ scan'[v].pc \notin {"score", "send"}
    /\ scan'[v].out = {} /\ scan'[v].done = {} /\ scan'[v].last = {}

LEMMA SendStays ==
    ASSUME TypeInv, SendInv, UNCHANGED <<rows, sent>>,
           scanFaults' \in Nat, scanFaults <= scanFaults',
           \A f \in Filters : Deleted(f)' <=> Deleted(f),
           \A v \in Workers : scan'[v] = scan[v] \/ Lets(v)
    PROVE  SendInv'
<1>1. \A v \in Workers : Carried(v)' = Carried(v)
  BY DEF Carried, Lets
<1>2. \A x \in Items : Deleted(Owner(x))' <=> Deleted(Owner(x))
  BY SendTypes DEF Owner, Deleted
<1>3. Gone'
  BY <1>2 DEF SendInv, Gone
<1>4. Owed'
  BY <1>1, <1>2, SendTypes DEF SendInv, Owed, InFlight
<1>5. ForwardedOncePerFault'
  BY SendTypes DEF SendInv, ForwardedOncePerFault
<1>6. ASSUME NEW v \in Workers  PROVE Outbox(v)'
  <2>1. CASE scan'[v] = scan[v]
    <3>1. /\ scan[v].out \subseteq Items /\ scan[v].done \subseteq Items
          /\ scan[v].last \subseteq Items
      BY <1>6, SendTypes DEF Carried
    <3>2. Outbox(v)
      BY <1>6 DEF SendInv
    <3> QED
      BY <1>1, <1>2, <1>6, <2>1, <3>1, <3>2, SendTypes DEF Outbox, Owner
  <2>2. CASE Lets(v)
    BY <2>2 DEF Lets, Outbox, Carried
  <2> QED
    BY <1>6, <2>1, <2>2
<1> QED
  BY <1>3, <1>4, <1>5, <1>6 DEF SendInv

LEMMA DeleteSends ==
    ASSUME TypeInv, SendInv, NEW f \in Filters, DeleteFilter(f)
    PROVE  SendInv'
<1>1. /\ rows' = [x \in Items |-> IF Owner(x) = f THEN "none" ELSE rows[x]]
      /\ UNCHANGED <<sent, scan, scanFaults>> /\ ~RowsLocked(f)
      /\ \A e \in Filters : Deleted(e)' <=> (e = f \/ Deleted(e))
  BY DEF DeleteFilter, DropRows, ScanUser, Owner, Deleted, TypeInv, ScanTypeOK
<1>2. \A x \in Items : Deleted(Owner(x))' <=> (Owner(x) = f \/ Deleted(Owner(x)))
  BY <1>1, SendTypes DEF Owner, Deleted
<1>3. Gone'
  BY <1>1, <1>2 DEF SendInv, Gone, Owner
<1>4. Owed'
  BY <1>1, <1>2 DEF SendInv, Owed, InFlight, Carried, Owner
<1>5. ForwardedOncePerFault'
  BY <1>1 DEF SendInv, ForwardedOncePerFault
<1>6. ASSUME NEW v \in Workers  PROVE Outbox(v)'
  <2>1. /\ scan[v].out \subseteq Items /\ scan[v].done \subseteq Items
        /\ scan[v].last \subseteq Items
    BY <1>6, SendTypes DEF Carried
  <2>2. Outbox(v) /\ scan'[v] = scan[v]
    BY <1>1, <1>6 DEF SendInv
  <2>3. \A x \in scan[v].done : rows'[x] = rows[x]
    BY <1>1, <1>6, <2>1 DEF RowsLocked, Owner
  <2> QED
    BY <1>1, <1>2, <2>1, <2>2, <2>3 DEF Outbox, Owner, Carried
<1> QED
  BY <1>3, <1>4, <1>5, <1>6 DEF SendInv

LEMMA ResetSends ==
    ASSUME TypeInv, SendInv, ~ResetsRace, NEW f \in Filters, ResetMessages(f)
    PROVE  SendInv'
<1>1. /\ rows' = [x \in Items |-> IF Owner(x) = f THEN "none" ELSE rows[x]]
      /\ sent' = [x \in Items |-> IF Owner(x) = f THEN 0 ELSE sent[x]]
      /\ UNCHANGED <<filter, scan, scanFaults>>
      /\ \A w \in Workers : scan[w].pc # "idle" => scan[w].msg.filter # f
  BY DEF ResetMessages, DropRows, ScanUser, Owner
<1>2. Gone'
  BY <1>1 DEF SendInv, Gone, Owner, Deleted
<1>3. \A x \in Items : sent'[x] <= sent[x]
  BY <1>1, SendTypes
<1>4. Owed'
  BY <1>1, SendTypes DEF SendInv, Owed, InFlight, Carried, Owner, Deleted
<1>5. ForwardedOncePerFault'
  BY <1>1, SendTypes DEF SendInv, ForwardedOncePerFault
<1>6. ASSUME NEW v \in Workers  PROVE Outbox(v)'
  <2>1. /\ scan[v].out \subseteq Items /\ scan[v].done \subseteq Items
        /\ scan[v].last \subseteq Items
    BY <1>6, SendTypes DEF Carried
  <2>2. Outbox(v) /\ scan'[v] = scan[v]
    BY <1>1, <1>6 DEF SendInv
  <2>3. \A x \in scan[v].out \cup scan[v].done \cup scan[v].last :
           rows'[x] = rows[x] /\ sent'[x] = sent[x]
    BY <1>1, <1>6, <2>1, <2>2 DEF Outbox, Carried
  <2> QED
    BY <1>1, <2>1, <2>2, <2>3 DEF Outbox, Owner, Carried, Deleted
<1> QED
  BY <1>2, <1>4, <1>5, <1>6 DEF SendInv

LEMMA ScrapeSends ==
    ASSUME TypeInv, SendInv, NEW w \in Workers, NEW g \in Groups,
           ScrapeGroup(w, g)
    PROVE  SendInv'
<1>1. /\ ~Deleted(FilterOf[g]) /\ UNCHANGED <<filter, sent, scanFaults>>
      /\ scan' = [scan EXCEPT ![w].todo = @ \ {g}]
      /\ scan \in [Workers -> ScanState]
  BY DEF ScrapeGroup, ScanFrame, Deleted, TypeInv, ScanTypeOK
<1>2. \A x \in Items : \/ rows'[x] = rows[x]
                       \/ /\ rows[x] = "none" /\ rows'[x] = "pending"
                          /\ ~Deleted(Owner(x))
  BY <1>1 DEF ScrapeGroup, Owner
<1>3. \A v \in Workers :
         /\ scan'[v].pc = scan[v].pc /\ scan'[v].out = scan[v].out
         /\ scan'[v].done = scan[v].done /\ scan'[v].last = scan[v].last
         /\ scan'[v].msg = scan[v].msg
  BY <1>1 DEF ScanState
<1>4. Gone'
  BY <1>1, <1>2 DEF SendInv, Gone, Deleted, Owner
<1>5. Owed'
  BY <1>1, <1>2, <1>3 DEF SendInv, Owed, InFlight, Carried, Deleted, Owner
<1>6. ForwardedOncePerFault'
  BY <1>1 DEF SendInv, ForwardedOncePerFault
<1>7. ASSUME NEW v \in Workers  PROVE Outbox(v)'
  <2>1. /\ scan[v].out \subseteq Items /\ scan[v].done \subseteq Items
        /\ scan[v].last \subseteq Items
    BY <1>7, SendTypes DEF Carried
  <2>2. Outbox(v)
    BY <1>7 DEF SendInv
  <2>3. \A x \in scan[v].out \cup scan[v].done \cup scan[v].last :
           rows'[x] = rows[x]
    BY <1>2, <2>1, <2>2 DEF Outbox
  <2> QED
    BY <1>1, <1>3, <1>7, <2>1, <2>2, <2>3 DEF Outbox, Owner, Carried, Deleted
<1> QED
  BY <1>4, <1>5, <1>6, <1>7 DEF SendInv

LEMMA LoadSends ==
    ASSUME TypeInv, SendInv, NEW w \in Workers, LoadPending(w)
    PROVE  SendInv'
<1>1. /\ UNCHANGED <<filter, rows, sent, scanFaults>> /\ scan[w].pc = "groups"
      /\ \A v \in Workers \ {w} : scan'[v] = scan[v]
      /\ scan'[w].pc = "score" /\ scan'[w].msg = scan[w].msg
      /\ scan'[w].out = {x \in Stored(w) : rows[x] = "pending"}
      /\ scan'[w].done = scan[w].done /\ scan'[w].last = scan[w].last
  BY DEF LoadPending, ScanFrame, filterVars, TypeInv, ScanTypeOK, ScanState
<1>2. \A v \in Workers : Carried(v)' = Carried(v)
  BY <1>1 DEF Carried
<1>3. Gone' /\ ForwardedOncePerFault'
  BY <1>1 DEF SendInv, Gone, Deleted, ForwardedOncePerFault
<1>4. Owed'
  BY <1>1, <1>2 DEF SendInv, Owed, InFlight, Deleted
<1>5. Outbox(w)'
  <2>1. Carried(w) = {}
    BY <1>1 DEF SendInv, Outbox
  <2> QED
    BY <1>1, <2>1 DEF Outbox, Carried, Stored, Owner
<1>6. ASSUME NEW v \in Workers \ {w}  PROVE Outbox(v)'
  BY <1>1, <1>6 DEF SendInv, Outbox, Carried, Deleted
<1> QED
  BY <1>3, <1>4, <1>5, <1>6 DEF SendInv

LEMMA ScoreSends ==
    ASSUME TypeInv, OneDevice, OwnDevice, HoldsLock, SendInv,
           NEW w \in Workers, Score(w)
    PROVE  SendInv'
<1> DEFINE scored == [x \in Items |->
                        IF x \notin scan[w].out THEN rows[x]
                        ELSE IF Matches(x) THEN "matched" ELSE "rejected"]
<1>1. /\ scan[w].pc = "score" /\ \A x \in scan[w].out : rows[x] # "none"
      /\ rows' = scored /\ UNCHANGED <<filter, sent, scanFaults>>
      /\ scan' = [scan EXCEPT ![w].pc = "send",
                              ![w].out = ToForward(w, scored)]
  BY DEF Score, ScanFrame
<1>2. \A x \in Items : \/ rows'[x] = rows[x]
                       \/ /\ x \in scan[w].out /\ rows[x] # "none"
                          /\ rows[x] # "forwarded"
                          /\ rows'[x] # "none" /\ rows'[x] # "forwarded"
  BY <1>1 DEF SendInv, Outbox, Gone
<1>3. \A x \in ToForward(w, scored) :
         /\ x \in Items /\ Owner(x) = scan[w].msg.filter
         /\ rows[x] # "none" /\ rows'[x] = "matched"
  BY <1>1 DEF ToForward, Stored, Owner
<1> HIDE DEF scored
<1>4. /\ \A v \in Workers \ {w} : scan'[v] = scan[v]
      /\ scan'[w].pc = "send" /\ scan'[w].msg = scan[w].msg
      /\ scan'[w].out = ToForward(w, scored)
      /\ scan'[w].done = scan[w].done /\ scan'[w].last = scan[w].last
  BY <1>1 DEF TypeInv, ScanTypeOK, ScanState
<1>5. Carried(w) = {} /\ \A v \in Workers : Carried(v)' = Carried(v)
  BY <1>1, <1>4 DEF Carried, SendInv, Outbox
<1>6. Gone'
  BY <1>1, <1>2 DEF SendInv, Gone, Deleted
<1>7. Owed'
  BY <1>1, <1>2, <1>5 DEF SendInv, Owed, InFlight, Deleted
<1>8. ForwardedOncePerFault'
  BY <1>1 DEF SendInv, ForwardedOncePerFault
<1>9. Outbox(w)'
  <2>1. ASSUME NEW x \in ToForward(w, scored)  PROVE sent[x] <= scanFaults
    <3>1. ~Deleted(Owner(x))
      BY <1>3, <2>1 DEF SendInv, Gone
    <3>2. rows[x] # "forwarded"
      BY <1>2, <1>3, <2>1
    <3>3. ~InFlight(x)
      <4> SUFFICES ASSUME NEW v \in Workers, x \in Carried(v)  PROVE FALSE
        BY DEF InFlight
      <4>1. scan[v].pc = "send" /\ scan[v].msg.filter = scan[w].msg.filter
        BY <1>3, <2>1 DEF SendInv, Outbox
      <4>2. v = w
        BY <1>1, <4>1, Alone DEF Holding, Scanning
      <4> QED
        BY <1>5, <4>2
    <3> QED
      BY <1>3, <2>1, <3>1, <3>2, <3>3 DEF SendInv, Owed
  <2> QED
    BY <1>1, <1>3, <1>4, <1>5, <2>1 DEF Outbox, Carried, Owner
<1>10. ASSUME NEW v \in Workers \ {w}  PROVE Outbox(v)'
  <2>1. /\ scan[v].out \subseteq Items /\ scan[v].done \subseteq Items
        /\ scan[v].last \subseteq Items
    BY <1>10, SendTypes DEF Carried
  <2>2. Outbox(v) /\ scan'[v] = scan[v]
    BY <1>4, <1>10 DEF SendInv
  <2> QED
    BY <1>1, <1>2, <2>1, <2>2 DEF Outbox, Owner, Carried, Deleted
<1> QED
  BY <1>6, <1>7, <1>8, <1>9, <1>10 DEF SendInv

LEMMA FlushSends ==
    ASSUME TypeInv, SendInv, NEW w \in Workers, FlushRaises(w)
    PROVE  SendInv'
<1>1. /\ UNCHANGED <<filter, rows, sent, scanFaults>>
      /\ \A v \in Workers \ {w} : scan'[v] = scan[v]
      /\ scan'[w].pc = "close" /\ scan'[w].out = {}
      /\ scan'[w].done = {} /\ scan'[w].last = {}
  BY DEF FlushRaises, ScanFrame, filterVars, TypeInv, ScanTypeOK, ScanState
<1>2. CASE Carried(w) = {}
  <2>1. \A v \in Workers : scan'[v] = scan[v] \/ Lets(v)
    BY <1>1, <1>2 DEF Lets
  <2>2. \A f \in Filters : Deleted(f)' <=> Deleted(f)
    BY <1>1 DEF Deleted
  <2>3. scanFaults' \in Nat /\ scanFaults <= scanFaults'
    BY <1>1, SendTypes
  <2> QED
    BY <1>1, <2>1, <2>2, <2>3, SendStays
<1>3. CASE Carried(w) # {}
  <2>1. scan[w].pc = "send" /\ \E x \in scan[w].last : rows[x] = "none"
    BY <1>3 DEF FlushRaises, SendInv, Outbox
  <2>2. \A x \in Carried(w) : Deleted(Owner(x))
    BY <2>1 DEF SendInv, Outbox, Carried
  <2>3. Gone' /\ ForwardedOncePerFault'
    BY <1>1 DEF SendInv, Gone, Deleted, ForwardedOncePerFault
  <2>4. \A v \in Workers \ {w} : Carried(v)' = Carried(v)
    BY <1>1 DEF Carried
  <2>5. Owed'
    BY <1>1, <2>2, <2>4 DEF SendInv, Owed, InFlight, Deleted
  <2>6. Outbox(w)'
    BY <1>1 DEF Outbox, Carried
  <2>7. ASSUME NEW v \in Workers \ {w}  PROVE Outbox(v)'
    BY <1>1, <2>7 DEF SendInv, Outbox, Carried, Deleted
  <2> QED
    BY <2>3, <2>5, <2>6, <2>7 DEF SendInv
<1> QED
  BY <1>2, <1>3

LEMMA ForwardSends ==
    ASSUME TypeInv, OneDevice, OwnDevice, HoldsLock, SendInv,
           NEW w \in Workers, NEW x \in Items, NEW s \in SendResults,
           Forward(w, x, s)
    PROVE  SendInv'
<1>1. /\ scan[w].pc = "send" /\ x \in scan[w].out
      /\ \A y \in scan[w].last : rows[y] # "none"
      /\ UNCHANGED <<filter, rows>>
      /\ \A v \in Workers \ {w} : scan'[v] = scan[v]
      /\ scan'[w].pc = "send" /\ scan'[w].msg = scan[w].msg
      /\ scan'[w].out = scan[w].out \ {x}
      /\ scan'[w].done = scan[w].done \cup scan[w].last
      /\ scan'[w].last = IF s.said THEN {x} ELSE {}
  BY DEF Forward, filterVars, TypeInv, ScanTypeOK, ScanState, SentNow
<1>2. /\ \A y \in Items \ {x} : sent'[y] = sent[y]
      /\ sent'[x] = IF s.went THEN sent[x] + 1 ELSE sent[x]
      /\ scanFaults' = IF s.said # s.went THEN scanFaults + 1 ELSE scanFaults
  BY DEF Forward, TypeInv, ScanTypeOK, Misreports
<1>3. /\ sent[x] \in Nat /\ scanFaults \in Nat /\ sent[x] <= scanFaults
      /\ s.said \in BOOLEAN /\ s.went \in BOOLEAN
      /\ scanFaults' \in Nat /\ scanFaults <= scanFaults'
  BY <1>1, <1>2, SendTypes DEF SendInv, Outbox, SendResults
<1>4. Gone'
  BY <1>1 DEF SendInv, Gone, Deleted
<1>5. \A y \in Items : InFlight(y) => InFlight(y)'
  BY <1>1 DEF InFlight, Carried
<1>6. ForwardedOncePerFault'
  <2>1. ASSUME NEW y \in Items  PROVE sent'[y] <= 1 + scanFaults'
    <3>1. sent[y] \in Nat /\ sent[y] <= 1 + scanFaults
      BY <2>1, SendTypes DEF SendInv, ForwardedOncePerFault
    <3>2. CASE y = x
      BY <1>2, <1>3, <3>2
    <3>3. CASE y # x
      BY <1>2, <1>3, <2>1, <3>1, <3>3
    <3> QED
      BY <3>2, <3>3
  <2> QED
    BY <2>1 DEF ForwardedOncePerFault
<1>7. Owed'
  <2>1. ASSUME NEW y \in Items, ~Deleted(Owner(y)), rows[y] # "forwarded",
               ~InFlight(y)'
        PROVE  sent'[y] <= scanFaults'
    <3>1. CASE y # x
      <4>1. sent[y] \in Nat /\ sent[y] <= scanFaults
        BY <1>5, <2>1, SendTypes DEF SendInv, Owed
      <4> QED
        BY <1>2, <1>3, <2>1, <3>1, <4>1
    <3>2. CASE y = x
      <4>1. ~s.said
        BY <1>1, <2>1, <3>2 DEF InFlight, Carried
      <4> QED
        BY <1>2, <1>3, <3>2, <4>1
    <3> QED
      BY <3>1, <3>2
  <2> QED
    BY <1>1, <2>1 DEF Owed, Deleted, Owner
<1>8. ASSUME NEW v \in Workers, NEW y \in scan'[v].out, scan[v].pc = "send"
      PROVE  sent'[y] <= scanFaults'
  <2>1. y \in scan[v].out /\ y \in Items
    BY <1>1, <1>8, SendTypes
  <2>2. y # x
    <3>1. CASE v = w
      BY <1>1, <1>8, <3>1
    <3>2. CASE v # w
      <4>1. scan[v].msg.filter # scan[w].msg.filter
        BY <1>1, <1>8, <3>2, Alone DEF Holding, Scanning
      <4> QED
        BY <1>1, <2>1, <4>1 DEF SendInv, Outbox
    <3> QED
      BY <3>1, <3>2
  <2>3. sent[y] \in Nat /\ sent[y] <= scanFaults
    BY <1>8, <2>1, SendTypes DEF SendInv, Outbox
  <2> QED
    BY <1>2, <1>3, <2>1, <2>2, <2>3
<1>9. Outbox(w)'
  <2>1. Outbox(w)
    BY DEF SendInv
  <2>2. scan[w].out \cap (scan[w].done \cup scan[w].last) = {}
    BY <2>1 DEF Outbox, Carried
  <2>3. scan'[w].out \cap Carried(w)' = {}
    BY <1>1, <2>2 DEF Carried
  <2>4. \A y \in scan'[w].out \cup Carried(w)' : Owner(y) = scan'[w].msg.filter
    BY <1>1, <2>1 DEF Outbox, Carried
  <2> QED
    BY <1>1, <1>8, <2>1, <2>3, <2>4 DEF Outbox, Owner, Deleted
<1>10. ASSUME NEW v \in Workers \ {w}  PROVE Outbox(v)'
  BY <1>1, <1>8, <1>10 DEF SendInv, Outbox, Carried, Deleted
<1> QED
  BY <1>4, <1>6, <1>7, <1>9, <1>10 DEF SendInv

LEMMA SaveSends ==
    ASSUME TypeInv, OneDevice, OwnDevice, HoldsLock, SendInv,
           NEW w \in Workers, SaveForwarded(w)
    PROVE  SendInv'
<1>1. /\ scan[w].pc = "send" /\ scan[w].out = {}
      /\ \A y \in scan[w].last : rows[y] # "none"
      /\ UNCHANGED <<filter, sent, scanFaults>>
      /\ \A v \in Workers \ {w} : scan'[v] = scan[v]
      /\ scan'[w].pc = "plan" /\ scan'[w].out = {}
      /\ scan'[w].done = {} /\ scan'[w].last = {}
      /\ rows' = [x \in Items |-> IF x \in Carried(w) THEN "forwarded"
                                 ELSE rows[x]]
  BY DEF SaveForwarded, ScanFrame, TypeInv, ScanTypeOK, ScanState, Marked,
         Carried
<1>2. \A x \in Carried(w) : rows[x] # "none" /\ Owner(x) = scan[w].msg.filter
  BY <1>1 DEF Carried, SendInv, Outbox
<1>3. Gone'
  BY <1>1, <1>2 DEF SendInv, Gone, Deleted
<1>4. \A v \in Workers \ {w} : Carried(v)' = Carried(v)
  BY <1>1 DEF Carried
<1>5. Owed'
  BY <1>1, <1>4 DEF SendInv, Owed, InFlight, Deleted
<1>6. ForwardedOncePerFault'
  BY <1>1 DEF SendInv, ForwardedOncePerFault
<1>7. Outbox(w)'
  BY <1>1 DEF Outbox, Carried
<1>8. ASSUME NEW v \in Workers \ {w}  PROVE Outbox(v)'
  <2>1. /\ scan[v].out \subseteq Items /\ scan[v].done \subseteq Items
        /\ scan[v].last \subseteq Items
    BY <1>8, SendTypes DEF Carried
  <2>2. Outbox(v) /\ scan'[v] = scan[v]
    BY <1>1, <1>8 DEF SendInv
  <2>3. ASSUME NEW x \in scan[v].out  PROVE x \notin Carried(w)
    <3>1. scan[v].pc \in {"score", "send"} /\ Owner(x) = scan[v].msg.filter
      BY <2>2, <2>3 DEF Outbox
    <3>2. scan[v].msg.filter # scan[w].msg.filter
      BY <1>1, <1>8, <3>1, Alone DEF Holding, Scanning
    <3> QED
      BY <1>2, <3>1, <3>2
  <2>4. \A x \in Items : rows[x] # "none" => rows'[x] # "none"
    BY <1>1
  <2> QED
    BY <1>1, <2>1, <2>2, <2>3, <2>4 DEF Outbox, Owner, Carried, Deleted
<1> QED
  BY <1>3, <1>5, <1>6, <1>7, <1>8 DEF SendInv

LEMMA CrashSends ==
    ASSUME TypeInv, SendInv, NEW w \in Workers, ScanCrash(w)
    PROVE  SendInv'
<1>1. /\ UNCHANGED <<filter, rows, sent>> /\ scanFaults' = scanFaults + 1
      /\ \A v \in Workers \ {w} : scan'[v] = scan[v]
      /\ scan'[w] = IdleScan
  BY DEF ScanCrash, filterVars, TypeInv, ScanTypeOK
<1>2. Gone'
  BY <1>1 DEF SendInv, Gone, Deleted
<1>3. Owed' /\ ForwardedOncePerFault'
  BY <1>1, SendTypes DEF SendInv, Owed, ForwardedOncePerFault
<1>4. Outbox(w)'
  BY <1>1 DEF Outbox, Carried, IdleScan
<1>5. ASSUME NEW v \in Workers \ {w}  PROVE Outbox(v)'
  <2>1. Outbox(v) /\ scan'[v] = scan[v] /\ scan[v].out \subseteq Items
    BY <1>1, <1>5, SendTypes DEF SendInv
  <2>2. scan[v].pc = "send" => \A x \in scan[v].out : sent[x] <= scanFaults + 1
    BY <2>1, SendTypes DEF Outbox
  <2> QED
    BY <1>1, <2>1, <2>2 DEF Outbox, Carried, Deleted
<1> QED
  BY <1>2, <1>3, <1>4, <1>5 DEF SendInv

LEMMA StepSends ==
    ASSUME TypeInv, OneDevice, OwnDevice, HoldsLock, SendInv,
           NEW w \in Workers, ScanStep(w)
    PROVE  SendInv'
<1>1. /\ scan \in [Workers -> ScanState] /\ filter \in [Filters -> FilterState]
      /\ scanFaults \in Nat
  BY DEF TypeInv, ScanTypeOK
<1>2. Outbox(w)
  BY DEF SendInv
<1>3. ASSUME UNCHANGED <<filter, rows, sent, scanFaults>>,
             \A v \in Workers \ {w} : scan'[v] = scan[v], Lets(w)
      PROVE  SendInv'
  BY <1>1, <1>3, SendStays DEF Deleted
<1>4. CASE \/ ProfileBusy(w) \/ MissingProfile(w) \/ LaunchFails(w)
           \/ CloseScan(w)
  <2>1. UNCHANGED <<filter, rows, sent, scanFaults>> /\ EndScan(w)
        /\ scan[w].pc # "send"
    BY <1>4
       DEF ProfileBusy, MissingProfile, LaunchFails, CloseScan, ScanFrame,
           filterVars
  <2>2. scan'[w] = IdleScan /\ \A v \in Workers \ {w} : scan'[v] = scan[v]
    BY <1>1, <2>1 DEF EndScan
  <2> QED
    BY <1>2, <1>3, <2>1, <2>2 DEF Lets, Outbox, IdleScan
<1>5. CASE \/ LockProfile(w) \/ Launch(w) \/ LoggedIn(w) \/ QrShown(w)
           \/ SlowToLoad(w)
  <2>1. /\ UNCHANGED <<filter, rows, sent, scanFaults>>
        /\ scan[w].pc \notin {"score", "send"}
        /\ \/ Goto(w, "open") \/ Goto(w, "login") \/ Goto(w, "groups")
           \/ Goto(w, "close")
    BY <1>5
       DEF LockProfile, Launch, LoggedIn, QrShown, SlowToLoad, ScanFrame,
           filterVars
  <2>2. /\ \A v \in Workers \ {w} : scan'[v] = scan[v]
        /\ scan'[w].pc \in {"open", "login", "groups", "close"}
        /\ scan'[w].out = scan[w].out /\ scan'[w].done = scan[w].done
        /\ scan'[w].last = scan[w].last
    BY <1>1, <2>1 DEF Goto, ScanState
  <2> QED
    BY <1>2, <1>3, <2>1, <2>2 DEF Lets, Outbox, Carried
<1>6. CASE PlanNextScan(w)
  <2>1. UNCHANGED <<rows, sent, scanFaults>> /\ scan[w].pc = "plan"
        /\ Goto(w, "close")
    BY <1>6 DEF PlanNextScan, ScanFrame
  <2>2. /\ \A v \in Workers \ {w} : scan'[v] = scan[v]
        /\ scan'[w].pc = "close"
        /\ scan'[w].out = scan[w].out /\ scan'[w].done = scan[w].done
        /\ scan'[w].last = scan[w].last
    BY <1>1, <2>1 DEF Goto, ScanState
  <2>3. Lets(w)
    BY <1>2, <2>1, <2>2 DEF Lets, Outbox, Carried
  <2>4. \A f \in Filters : Deleted(f)' <=> Deleted(f)
    BY <1>1, <1>6 DEF PlanNextScan, Deleted, MayPlan, FilterState
  <2> QED
    BY <1>1, <2>1, <2>2, <2>3, <2>4, SendStays
<1>7. ASSUME NEW g \in Groups, GroupNotOpened(w, g)  PROVE SendInv'
  <2>1. /\ UNCHANGED <<filter, rows, sent, scanFaults>> /\ scan[w].pc = "groups"
        /\ scan' = [scan EXCEPT ![w].todo = @ \ {g}]
    BY <1>7 DEF GroupNotOpened, ScanFrame, filterVars
  <2>2. /\ \A v \in Workers \ {w} : scan'[v] = scan[v]
        /\ scan'[w].pc = "groups"
        /\ scan'[w].out = scan[w].out /\ scan'[w].done = scan[w].done
        /\ scan'[w].last = scan[w].last
    BY <1>1, <2>1 DEF ScanState
  <2> QED
    BY <1>2, <1>3, <2>1, <2>2 DEF Lets, Outbox, Carried
<1> QED
  BY <1>4, <1>5, <1>6, <1>7, ScrapeSends, LoadSends, ScoreSends, FlushSends,
     ForwardSends, SaveSends DEF ScanStep

LEMMA SendStep ==
    ASSUME TypeInv, ~ResetsRace, OneDevice, OwnDevice, HoldsLock, SendInv,
           [ScanNext]_ScannerVars
    PROVE  SendInv'
<1>1. scanFaults \in Nat /\ filter \in [Filters -> FilterState]
  BY DEF TypeInv, ScanTypeOK
<1>2. ASSUME UNCHANGED <<filter, rows, sent, scan>>, scanFaults' \in Nat,
             scanFaults <= scanFaults'
      PROVE  SendInv'
  BY <1>2, SendStays DEF Deleted
<1>3. ASSUME NEW f \in Filters, FilterRequest(f)  PROVE SendInv'
  <2>1. CASE ActivateFilter(f) \/ PauseFilter(f)
    <3>1. UNCHANGED <<rows, sent, scan, scanFaults>>
      BY <2>1 DEF ActivateFilter, PauseFilter, ScanUser
    <3>2. \A e \in Filters : Deleted(e)' <=> Deleted(e)
      BY <1>1, <2>1
         DEF ActivateFilter, PauseFilter, Deleted, FilterState
    <3> QED
      BY <1>1, <3>1, <3>2, SendStays
  <2>2. CASE TriggerScan(f) \/ \E chats \in SUBSET Chats : SelectGroups(f, chats)
    BY <1>1, <1>2, <2>2 DEF TriggerScan, SelectGroups, ScanUser, filterVars
  <2> QED
    BY <1>3, <2>1, <2>2, DeleteSends, ResetSends DEF FilterRequest
<1>4. ASSUME NEW w \in Workers, TakeScan(w)  PROVE SendInv'
  <2>1. UNCHANGED <<filter, rows, sent, scanFaults>>
    BY <1>4 DEF TakeScan, StartScan, SkipScan, filterVars
  <2>2. ASSUME NEW v \in Workers, Begins(v)  PROVE Lets(v)
    <3>1. scan[v].pc = "idle" /\ Outbox(v)
      BY <2>2 DEF Begins, SendInv
    <3> QED
      BY <2>2, <3>1, BeginsWhole DEF Lets, Outbox
  <2>3. \A v \in Workers : scan'[v] = scan[v] \/ Lets(v)
    BY <1>4, <2>2, TakeMoves
  <2> QED
    BY <1>1, <2>1, <2>3, SendStays DEF Deleted
<1>5. CASE \/ BeatFindsScans \/ BeatWorks
           \/ \E c \in Chats : MessageArrives(c)
           \/ \E f \in Filters : ScanLeaseExpires(f)
           \/ \E p \in Profiles : ScanLockExpires(p)
           \/ \E p \in Profiles, st \in {"blank", "missing"} :
                 ProfileLost(p, st)
           \/ UNCHANGED ScannerVars
  <2>1. UNCHANGED <<filter, rows, sent, scan>>
    BY <1>5
       DEF BeatFindsScans, BeatWorks, BeatSendsScan, BeatSkipsScan,
           BeatSendFails, BeatFrame, MessageArrives, ScanLeaseExpires,
           ScanLockExpires, TimeFrame, ProfileLost, ScannerVars, scanVars,
           filterVars
  <2>2. scanFaults' = scanFaults \/ scanFaults' = scanFaults + 1
    BY <1>5
       DEF BeatFindsScans, BeatWorks, BeatSendsScan, BeatSkipsScan,
           BeatSendFails, BeatFrame, MessageArrives, ScanLeaseExpires,
           ScanLockExpires, TimeFrame, ProfileLost, ScannerVars, scanVars
  <2> QED
    BY <1>1, <1>2, <2>1, <2>2
<1>6. CASE Tick
  <2>1. UNCHANGED <<rows, sent, scan, scanFaults>>
    BY <1>6 DEF Tick, TimeFrame
  <2>2. \A e \in Filters : Deleted(e)' <=> Deleted(e)
    BY <1>1, <1>6 DEF Tick, Deleted, FilterState
  <2> QED
    BY <1>1, <2>1, <2>2, SendStays
<1> QED
  BY <1>3, <1>4, <1>5, <1>6, StepSends, CrashSends DEF ScanNext

\* A stored message is forwarded once, and once more at most for every fault:
\* whatever scans by hand, dispatched and redelivered ones meet, whatever its
\* owner pauses, deletes and resets between them, while a filter scans on one
\* device.
THEOREM ForwardedOncePerFaultCorrect ==
    ASSUME ~SlowScans, ~ResetsRace, OneDevice
    PROVE  ScannerSpec => []ForwardedOncePerFault
<1>1. ScannerInit => HoldsLock /\ OwnDevice /\ SendInv
  <2> SUFFICES ASSUME ScannerInit  PROVE HoldsLock /\ OwnDevice /\ SendInv
    OBVIOUS
  <2>1. /\ scanFaults = 0 /\ \A w \in Workers : scan[w] = IdleScan
        /\ \A x \in Items : sent[x] = 0 /\ rows[x] = "none"
    BY DEF ScannerInit, ScanInit
  <2>0. /\ IdleScan.pc = "idle" /\ IdleScan.out = {} /\ IdleScan.done = {}
        /\ IdleScan.last = {}
    BY DEF IdleScan
  <2>2. HoldsLock /\ OwnDevice
    BY <2>0, <2>1 DEF HoldsLock, OwnDevice, Holding, Scanning
  <2>3. \A w \in Workers : Outbox(w)
    BY <2>0, <2>1 DEF Outbox, Carried
  <2> QED
    BY <2>1, <2>2, <2>3 DEF SendInv, Gone, Owed, ForwardedOncePerFault
<1>2. TypeInv /\ HoldsLock /\ [ScanNext]_ScannerVars => HoldsLock'
  BY LockStep
<1>3. TypeInv /\ OwnDevice /\ [ScanNext]_ScannerVars => OwnDevice'
  BY DeviceStep
<1>4. TypeInv /\ HoldsLock /\ OwnDevice /\ SendInv /\ [ScanNext]_ScannerVars
         => SendInv'
  BY SendStep
<1>5. SendInv => ForwardedOncePerFault
  BY DEF SendInv
<1> QED
  BY <1>1, <1>2, <1>3, <1>4, <1>5, InitTyped, TypeStep, PTL DEF ScannerSpec

-----------------------------------------------------------------------------
(* The reading of a chat (MessageHistory).                                  *)

LEMMA Extremes ==
    ASSUME NEW a \in Int, NEW b \in Int
    PROVE  /\ Max({a, b}) = IF a >= b THEN a ELSE b
           /\ Min({a, b}) = IF a >= b THEN b ELSE a
BY DEF Max, Min

\* A finite set of messages can be put in order: a message's place is the
\* number of those up to it.
LEMMA Ordered ==
    ASSUME NEW S \in SUBSET Int, IsFiniteSet(S)
    PROVE  /\ Cardinality(S) \in Nat
           /\ InOrder(S) \in [1..Cardinality(S) -> S]
           /\ \A i, j \in 1..Cardinality(S) :
                 i < j => InOrder(S)[i] < InOrder(S)[j]
           /\ \A k \in S : \E i \in 1..Cardinality(S) : InOrder(S)[i] = k
<1> DEFINE n     == Cardinality(S)
           Up(k) == {m \in S : m <= k}
           place == [k \in S |-> Cardinality(Up(k))]
<1>0. \A k \in S : k \in Int
  OBVIOUS
<1>1. n \in Nat
  BY FS_CardinalityType
<1>2. \A k \in S : IsFiniteSet(Up(k)) /\ Cardinality(Up(k)) \in 1..n
  <2> SUFFICES ASSUME NEW k \in S
               PROVE  IsFiniteSet(Up(k)) /\ Cardinality(Up(k)) \in 1..n
    OBVIOUS
  <2>1. Up(k) \in SUBSET S /\ k \in Up(k)
    OBVIOUS
  <2>2. IsFiniteSet(Up(k)) /\ Cardinality(Up(k)) <= n
    BY <2>1, FS_Subset
  <2>3. Cardinality(Up(k)) \in Nat /\ Cardinality(Up(k)) # 0
    BY <2>1, <2>2, FS_CardinalityType, FS_EmptySet
  <2> QED
    BY <1>1, <2>2, <2>3
<1>3. \A k, m \in S : k < m => place[k] < place[m]
  <2> SUFFICES ASSUME NEW k \in S, NEW m \in S, k < m
               PROVE  Cardinality(Up(k)) < Cardinality(Up(m))
    OBVIOUS
  <2>0. k \in Int /\ m \in Int /\ \A x \in S : x \in Int /\ (x <= k => x <= m)
    BY <1>0
  <2>1. Up(k) \in SUBSET Up(m)
    BY <2>0
  <2>4. m <= m /\ ~(m <= k)
    BY <2>0
  <2>5. m \in Up(m) /\ m \notin Up(k)
    BY <2>4
  <2>2. /\ Cardinality(Up(k)) <= Cardinality(Up(m))
        /\ Cardinality(Up(k)) # Cardinality(Up(m))
    BY <1>2, <2>1, <2>5, FS_Subset
  <2> QED
    BY <1>1, <1>2, <2>2
<1>4. place \in [S -> 1..n]
  BY <1>2
<1>5. place \in Injection(S, 1..n)
  <2>1. \A k, m \in S : place[k] = place[m] => k = m
    <3> SUFFICES ASSUME NEW k \in S, NEW m \in S, place[k] = place[m], k # m
                 PROVE  FALSE
      OBVIOUS
    <3>1. k < m \/ m < k
      OBVIOUS
    <3>2. place[k] \in Nat /\ place[m] \in Nat
      BY <1>4
    <3> HIDE DEF place
    <3> QED
      BY <1>3, <3>1, <3>2
  <2> QED
    BY <1>4, <2>1 DEF Injection, IsInjective
<1>6. place \in Surjection(S, 1..n)
  <2>1. IsFiniteSet(1..n) /\ Cardinality(1..n) = n
    BY <1>1, FS_Interval
  <2> QED
    BY <1>5, <2>1, FS_Injection
<1>7. \A i \in 1..n : \E k \in S : place[k] = i
  BY <1>6 DEF Surjection
<1> DEFINE s == [i \in 1..n |-> CHOOSE k \in S : place[k] = i]
<1>8. \A i \in 1..n : s[i] \in S /\ place[s[i]] = i
  <2> HIDE DEF place
  <2> QED
    BY <1>7
<1> DEFINE Sorted(t) == \A i, j \in 1..n : i < j => t[i] < t[j]
<1>9. s \in [1..n -> S] /\ Sorted(s)
  <2>1. ASSUME NEW i \in 1..n, NEW j \in 1..n, i < j  PROVE s[i] < s[j]
    <3>1. s[i] \in S /\ s[j] \in S /\ place[s[i]] = i /\ place[s[j]] = j
      BY <1>8
    <3> HIDE DEF place, s
    <3>2. i \in Int /\ j \in Int
      BY <1>1
    <3>5. s[i] \in Int /\ s[j] \in Int
      BY <1>0, <3>1
    <3>3. ~(s[j] < s[i])
      BY <1>3, <2>1, <3>1, <3>2, <3>5
    <3>4. s[i] # s[j]
      BY <2>1, <3>1, <3>2
    <3> QED
      BY <3>5, <3>3, <3>4
  <2>2. s \in [1..n -> S]
    BY <1>8
  <2> HIDE DEF s
  <2> QED
    BY <2>1, <2>2
<1>10. InOrder(S) \in [1..n -> S] /\ Sorted(InOrder(S))
  <2>1. InOrder(S) = CHOOSE t \in [1..n -> S] : Sorted(t)
    BY DEF InOrder
  <2> HIDE DEF s, Sorted
  <2> QED
    BY <1>9, <2>1
<1>11. \A k \in S : \E i \in 1..n : InOrder(S)[i] = k
  <2> DEFINE t == InOrder(S)
  <2>0. t \in [1..n -> S] /\ \A i, j \in 1..n : i < j => t[i] < t[j]
    BY <1>10
  <2> HIDE DEF t
  <2>1. t \in Injection(1..n, S)
    <3>1. \A i, j \in 1..n : t[i] = t[j] => i = j
      <4> SUFFICES ASSUME NEW i \in 1..n, NEW j \in 1..n, t[i] = t[j], i # j
                   PROVE  FALSE
        OBVIOUS
      <4>1. i < j \/ j < i
        BY <1>1
      <4>2. t[i] \in Int /\ t[j] \in Int
        BY <2>0
      <4> QED
        BY <2>0, <4>1, <4>2
    <3> QED
      BY <2>0, <3>1 DEF Injection, IsInjective
  <2>2. t \in Surjection(1..n, S)
    BY <1>1, <2>1, FS_Injection, FS_Interval
  <2> QED
    BY <2>2 DEF Surjection, t
<1> QED
  BY <1>1, <1>10, <1>11

-----------------------------------------------------------------------------
(* The state of the reading.                                               *)

Reader == {"wait", "look", "read", "cut", "done"}

HistoryTyped ==
    /\ tail \in Nat /\ mark \in 0..tail
    /\ wordless \subseteq 1..tail /\ mark \notin wordless
    /\ limit \in 1..MaxLimit /\ comings \in 0..MaxArrivals /\ rounds \in Nat
    /\ pane \in [lo: Nat \ {0}, hi: Nat, bottom: BOOLEAN]
    /\ found \in Seq(Nat) /\ reader \in Reader
    /\ pane.hi <= tail
    /\ pane.bottom => pane = AtBottom(tail) /\ rounds = 0
    /\ reader = "wait" => pane.bottom /\ found = <<>> /\ rounds = 0
    /\ reader = "read" => ~pane.bottom

\* What a scroll shows that no window before it has shown.
Gain == Stride - MaxArrivals - 1

\* Of Gain + 1 neighbours one at most has no words.
LEMMA Neighbours ==
    ASSUME Spread(wordless), NEW a \in Int, Gain >= 1
    PROVE  /\ IsFiniteSet((a..(a + Gain)) \ wordless)
           /\ Cardinality((a..(a + Gain)) \ wordless) >= Gain
           /\ (a..(a + Gain)) \ wordless # {}
<1> DEFINE D == a..(a + Gain)
<1>0. Gain \in Nat
  BY HistoryAssumption DEF Gain
<1>1. IsFiniteSet(D) /\ Cardinality(D) = Gain + 1
  BY <1>0, FS_Interval
<1>2. \A i, j \in D \cap wordless : i = j
  <2> SUFFICES ASSUME NEW i \in D, NEW j \in D, i \in wordless, j \in wordless
               PROVE  i = j
    OBVIOUS
  <2>1. i \in Int /\ j \in Int /\ i - j <= Gain /\ j - i <= Gain
    BY <1>0
  <2>2. i = j \/ Max({i - j, j - i}) >= Stride - MaxArrivals
    BY DEF Spread
  <2>3. Max({i - j, j - i}) <= Gain
    BY <1>0, <2>1, Extremes
  <2>4. Stride - MaxArrivals = Gain + 1
    BY HistoryAssumption DEF Gain
  <2>5. Max({i - j, j - i}) \in Int
    BY <2>1, Extremes
  <2> QED
    BY <1>0, <2>2, <2>3, <2>4, <2>5
<1>3. \E x : D \ wordless = D \/ (x \in D /\ D \ wordless = D \ {x})
  BY <1>2
<1> HIDE DEF D
<1>4. /\ IsFiniteSet(D \ wordless)
      /\ Cardinality(D \ wordless) \in {Gain, Gain + 1}
  <2>1. CASE D \ wordless = D
    BY <1>1, <2>1
  <2>2. CASE D \ wordless # D
    <3>1. PICK x : x \in D /\ D \ wordless = D \ {x}
      BY <1>3, <2>2
    <3>2. IsFiniteSet(D \ {x}) /\ Cardinality(D \ {x}) = Cardinality(D) - 1
      BY <1>1, <3>1, FS_RemoveElement
    <3> QED
      BY <1>0, <1>1, <3>1, <3>2
  <2> QED
    BY <2>1, <2>2
<1>5. Cardinality(D \ wordless) # 0
  BY <1>0, <1>4
<1>6. D \ wordless # {}
  BY <1>4, <1>5, FS_EmptySet
<1> QED
  BY <1>0, <1>4, <1>6 DEF D

LEMMA Panes ==
    ASSUME HistoryTyped, NEW n \in Int, n >= 1
    PROVE  /\ At(n) \in [lo: Nat \ {0}, hi: Nat, bottom: BOOLEAN]
           /\ At(n).lo = n /\ At(n).hi <= tail /\ ~At(n).bottom
           /\ At(n).hi = tail \/ At(n).hi = n + Rows - 1
<1>1. n + Rows - 1 \in Nat /\ tail \in Nat
  BY HistoryAssumption DEF HistoryTyped
<1>2. Min({n + Rows - 1, tail}) = IF n + Rows - 1 >= tail THEN tail
                                  ELSE n + Rows - 1
  BY <1>1, Extremes
<1> DEFINE hi == Min({n + Rows - 1, tail})
<1>3. /\ n \in Nat \ {0} /\ hi \in Nat /\ FALSE \in BOOLEAN /\ hi <= tail
      /\ hi = tail \/ hi = n + Rows - 1
  BY <1>1, <1>2
<1>4. At(n) = [lo |-> n, hi |-> hi, bottom |-> FALSE]
  BY DEF At
<1> HIDE DEF hi
<1> QED
  BY <1>3, <1>4

LEMMA Bottoms ==
    ASSUME NEW n \in Nat
    PROVE  /\ AtBottom(n) \in [lo: Nat \ {0}, hi: Nat, bottom: BOOLEAN]
           /\ AtBottom(n).hi = n /\ AtBottom(n).bottom
           /\ AtBottom(n).lo = IF n <= Rows THEN 1 ELSE n - Rows + 1
<1> DEFINE lo == Max({1, n - Rows + 1})
<1>1. lo \in Nat \ {0} /\ lo = IF n <= Rows THEN 1 ELSE n - Rows + 1
  BY HistoryAssumption, Extremes
<1>2. AtBottom(n) = [lo |-> lo, hi |-> n, bottom |-> TRUE] /\ TRUE \in BOOLEAN
  BY DEF AtBottom
<1> HIDE DEF lo
<1> QED
  BY <1>1, <1>2

\* One window: what is new on it, in the order of the chat.
LEMMA Windows ==
    ASSUME HistoryTyped
    PROVE  /\ OnPage \subseteq Nat \ {0} /\ IsFiniteSet(NewOnPage)
           /\ Fresh \in Seq(Nat) /\ Len(Fresh) = Cardinality(NewOnPage)
           /\ \A i \in 1..Len(Fresh) : Fresh[i] \in NewOnPage
           /\ \A i, j \in 1..Len(Fresh) : i < j => Fresh[i] < Fresh[j]
           /\ \A k \in NewOnPage : \E i \in 1..Len(Fresh) : Fresh[i] = k
<1>1. pane.lo \in Nat \ {0} /\ pane.hi \in Nat
  BY DEF HistoryTyped
<1>2. OnPage \subseteq Nat \ {0} /\ IsFiniteSet(OnPage)
  <2>1. pane.lo \in Int /\ pane.hi \in Int
    BY <1>1
  <2>2. IsFiniteSet(pane.lo .. pane.hi)
    BY <2>1, FS_Interval
  <2>3. \A k \in pane.lo .. pane.hi : k \in Nat \ {0}
    BY <1>1
  <2> QED
    BY <2>2, <2>3 DEF OnPage
<1>3. NewOnPage \in SUBSET OnPage
  BY DEF NewOnPage
<1>4. IsFiniteSet(NewOnPage) /\ NewOnPage \in SUBSET Int
  <2>1. IsFiniteSet(NewOnPage)
    BY <1>2, <1>3, FS_Subset
  <2>2. \A k \in OnPage : k \in Int
    BY <1>2
  <2> QED
    BY <1>3, <2>1, <2>2
<1>5. /\ Cardinality(NewOnPage) \in Nat
      /\ Fresh \in [1..Cardinality(NewOnPage) -> NewOnPage]
      /\ \A i, j \in 1..Cardinality(NewOnPage) : i < j => Fresh[i] < Fresh[j]
      /\ \A k \in NewOnPage :
            \E i \in 1..Cardinality(NewOnPage) : Fresh[i] = k
  BY <1>4, Ordered DEF Fresh
<1>6. NewOnPage \subseteq Nat
  BY <1>2, <1>3
<1>7. Fresh \in Seq(Nat) /\ Len(Fresh) = Cardinality(NewOnPage)
  <2> DEFINE n == Cardinality(NewOnPage)
  <2>1. n \in Nat /\ Fresh \in [1..n -> Nat]
    BY <1>5, <1>6
  <2> HIDE DEF n
  <2>2. Fresh \in Seq(Nat) /\ Len(Fresh) = n
    BY <2>1
  <2> QED
    BY <2>2 DEF n
<1> QED
  BY <1>2, <1>4, <1>5, <1>7

-----------------------------------------------------------------------------
(* What has been read.                                                     *)

Has(k) == Contains(found, k)
Latest == found[Len(found)]

\* The messages read are in order, but for those that came after the newest.
Merged ==
    \A i \in 1..Len(found) :
        /\ found[i] \in 1..tail /\ found[i] \notin wordless
        /\ found[i] + comings >= pane.lo
        /\ \A j \in 1..Len(found) : i < j =>
              found[i] # found[j] /\ (found[i] < found[j] \/ found[i] > Latest)

\* What has not been read is older than all that has, or newer than the end.
Closed ==
    found # <<>> =>
        /\ mark <= Latest
        /\ \A k \in 1..Latest : k \notin wordless /\ ~Has(k) =>
              \A i \in 1..Len(found) : k < found[i]

PaneRead ==
    found # <<>> /\ reader \in {"look", "cut"} =>
        \A k \in pane.lo .. Latest : k \in wordless \/ Has(k)

\* A window reaches up to the one before it, and shows Gain messages more.
Overlaps ==
    reader = "read" =>
        /\ found # <<>>
        /\ \A k \in pane.lo .. Latest :
              k \in wordless \/ Has(k) \/ k <= pane.hi
        /\ \/ pane.lo = 1
           \/ /\ pane.lo + Gain <= pane.hi
              /\ \A i \in 1..Len(found) : found[i] > pane.lo + Gain

Gains ==
    \/ Len(found) >= Gain * rounds
    \/ reader # "read" /\ pane.lo = 1

OneWordless ==
    found = <<>> /\ reader = "look" => pane.bottom /\ tail <= 1 + comings

Ends ==
    found # <<>> /\ reader = "cut" =>
        \/ Len(found) >= limit
        \/ \A k \in (mark + 1)..Latest : k \in wordless \/ Has(k)

ReadingInv == Merged /\ Closed /\ PaneRead /\ Overlaps /\ Gains /\ OneWordless
              /\ Ends

HistoryInv == /\ HistoryTyped /\ Spread(wordless)
              /\ reader # "done" => ReadingInv
              /\ NoGapBeforeCheckpoint

\* The scroll shows something with every step, and enough in forty.
EveryScrollGains ==
    ~WordlessRuns /\ Gain >= 1 /\ MaxLimit <= 40 * Gain

LEMMA Constant ==
    ASSUME EveryScrollGains
    PROVE  /\ Rows \in Nat /\ Stride \in Nat /\ MaxArrivals \in Nat
           /\ Stride < Rows /\ Gain \in Nat /\ Gain >= 1
           /\ Gain = Stride - MaxArrivals - 1 /\ MaxLimit \in Nat
BY HistoryAssumption DEF EveryScrollGains, Gain

LEMMA Parts ==
    ASSUME EveryScrollGains, HistoryTyped
    PROVE  /\ tail \in Nat /\ comings \in 0..MaxArrivals /\ comings \in Nat
           /\ rounds \in Nat /\ limit \in Nat \ {0} /\ limit \in Nat
           /\ mark \in 0..tail /\ mark \notin wordless
           /\ pane.lo \in Nat \ {0} /\ pane.hi \in Nat /\ pane.hi <= tail
           /\ found \in Seq(Nat) /\ \A i \in 1..Len(found) : found[i] \in Nat
<1>1. /\ tail \in Nat /\ comings \in 0..MaxArrivals
      /\ rounds \in Nat /\ limit \in 1..MaxLimit
      /\ mark \in 0..tail /\ mark \notin wordless
      /\ pane \in [lo: Nat \ {0}, hi: Nat, bottom: BOOLEAN] /\ pane.hi <= tail
      /\ found \in Seq(Nat)
  BY DEF HistoryTyped
<1>2. comings \in Nat /\ limit \in Nat \ {0} /\ limit \in Nat
  BY <1>1, Constant
<1>3. pane.lo \in Nat \ {0} /\ pane.hi \in Nat
  BY <1>1
<1>4. \A i \in 1..Len(found) : found[i] \in Nat
  BY <1>1
<1> QED
  BY <1>1, <1>2, <1>3, <1>4

LEMMA StartsEmpty ==
    ASSUME EveryScrollGains, HistoryInit  PROVE HistoryInv
<1>1. HistoryTyped
  <2>1. tail \in Nat /\ 0 \in 0..MaxArrivals /\ mark \in 0..tail
    BY HistoryAssumption DEF HistoryInit
  <2>2. pane = AtBottom(tail) /\ AtBottom(tail).hi <= tail
    BY <2>1, Bottoms DEF HistoryInit
  <2>3. pane \in [lo: Nat \ {0}, hi: Nat, bottom: BOOLEAN] /\ pane.hi <= tail
    BY <2>1, <2>2, Bottoms
  <2>4. pane.bottom
    BY <2>1, <2>2, Bottoms
  <2>5. wordless \subseteq 1..tail /\ mark \notin wordless
    BY DEF HistoryInit
  <2> QED
    BY <2>1, <2>2, <2>3, <2>4, <2>5 DEF HistoryInit, HistoryTyped, Reader
<1>2. Spread(wordless)
  BY DEF HistoryInit, EveryScrollGains
<1>3. Len(found) = 0 /\ Len(found) >= Gain * rounds
  BY Constant DEF HistoryInit
<1>4. ReadingInv
  BY <1>3 DEF HistoryInit, ReadingInv, Merged, Closed, PaneRead, Overlaps,
              Gains, OneWordless, Ends
<1>5. NoGapBeforeCheckpoint
  BY DEF HistoryInit, NoGapBeforeCheckpoint
<1> QED
  BY <1>1, <1>2, <1>4, <1>5 DEF HistoryInv

LEMMA Comes ==
    ASSUME EveryScrollGains, HistoryInv, MessageComes  PROVE HistoryInv'
<1>0. /\ reader # "done" /\ comings < MaxArrivals /\ comings' = comings + 1
      /\ tail' = tail + 1 /\ UNCHANGED <<mark, wordless, limit, found, rounds,
                                         reader>>
      /\ HistoryTyped /\ ReadingInv
  BY DEF MessageComes, HistoryInv
<1>1. /\ tail \in Nat /\ comings \in 0..MaxArrivals /\ MaxArrivals \in Nat
      /\ pane.lo \in Nat /\ found \in Seq(Nat) /\ pane.hi \in Nat
      /\ pane.hi <= tail
  BY <1>0, Parts, Constant
<1>2. /\ pane.lo <= pane'.lo /\ pane'.lo <= pane.lo + 1
      /\ pane' \in [lo: Nat \ {0}, hi: Nat, bottom: BOOLEAN]
      /\ pane'.hi <= tail' /\ (pane'.bottom <=> pane.bottom)
      /\ pane'.bottom => pane' = AtBottom(tail')
      /\ ~pane'.bottom => pane' = pane
  <2>1. CASE pane.bottom
    <3>1. pane = AtBottom(tail) /\ pane' = AtBottom(tail + 1)
      BY <1>0, <2>1 DEF MessageComes, HistoryTyped
    <3>2. /\ pane.lo = IF tail <= Rows THEN 1 ELSE tail - Rows + 1
          /\ pane'.lo = IF tail' <= Rows THEN 1 ELSE tail' - Rows + 1
          /\ pane' \in [lo: Nat \ {0}, hi: Nat, bottom: BOOLEAN]
          /\ pane'.hi = tail' /\ pane'.bottom
      <4>1. tail + 1 \in Nat
        BY <1>1
      <4>2. /\ pane' \in [lo: Nat \ {0}, hi: Nat, bottom: BOOLEAN]
            /\ pane'.hi = tail' /\ pane'.bottom
            /\ pane'.lo = IF tail' <= Rows THEN 1 ELSE tail' - Rows + 1
        <5>1. PICK n \in Nat : n = tail + 1
          BY <4>1
        <5>2. /\ AtBottom(n) \in [lo: Nat \ {0}, hi: Nat, bottom: BOOLEAN]
              /\ AtBottom(n).hi = n /\ AtBottom(n).bottom
              /\ AtBottom(n).lo = IF n <= Rows THEN 1 ELSE n - Rows + 1
          BY Bottoms
        <5>3. pane' = AtBottom(n) /\ tail' = n /\ tail + 1 = n
          BY <1>0, <3>1, <5>1
        <5> QED
          BY <5>2, <5>3
      <4>3. pane.lo = IF tail <= Rows THEN 1 ELSE tail - Rows + 1
        BY <1>1, <3>1, Bottoms
      <4> QED
        BY <4>2, <4>3
    <3>3. pane.lo <= pane'.lo /\ pane'.lo <= pane.lo + 1
      <4>1. tail \in Int /\ tail' = tail + 1 /\ Rows \in Int
        BY <1>0, <1>1, Constant
      <4> QED
        BY <3>2, <4>1
    <3>4. pane' = AtBottom(tail')
      BY <1>0, <3>1
    <3>5. tail' \in Nat /\ pane'.hi <= tail' /\ (pane'.bottom <=> pane.bottom)
      BY <1>0, <1>1, <2>1, <3>2
    <3> QED
      BY <3>2, <3>3, <3>4, <3>5
  <2>2. CASE ~pane.bottom
    <3>1. pane' = pane
      BY <2>2 DEF MessageComes
    <3> QED
      BY <1>0, <1>1, <2>2, <3>1 DEF HistoryTyped
  <2> QED
    BY <2>1, <2>2
<1>3. HistoryTyped'
  BY <1>0, <1>1, <1>2 DEF HistoryTyped
<1>4. pane.bottom => rounds = 0
  BY <1>0 DEF HistoryTyped
<1>5. Merged'
  <2>1. \A i \in 1..Len(found) : found[i] \in Nat
    BY <1>1
  <2>2. Merged /\ Latest' = Latest /\ tail <= tail'
    BY <1>0, <1>1 DEF ReadingInv, Latest
  <2>3. \A i \in 1..Len(found) :
            found[i] \in 1..tail' /\ found[i] \notin wordless
    BY <1>0, <1>1, <2>2 DEF Merged
  <2>4. \A i \in 1..Len(found) : found[i] + comings' >= pane'.lo
    <3>1. \A i \in 1..Len(found) : found[i] + comings >= pane.lo
      BY <2>2 DEF Merged
    <3>2. comings \in Int /\ pane.lo \in Int /\ pane'.lo \in Int
      BY <1>1, <1>2
    <3> QED
      BY <1>0, <1>2, <2>1, <3>1, <3>2
  <2> QED
    BY <1>0, <2>2, <2>3, <2>4 DEF Merged
<1>6. Closed' /\ Ends'
  BY <1>0 DEF ReadingInv, Closed, Ends, Latest, Has
<1>7. PaneRead'
  <2>1. found # <<>> => Latest \in Nat
    BY <1>1 DEF Latest
  <2>2. \A k \in pane'.lo .. Latest : found # <<>> => k \in pane.lo .. Latest
    BY <1>1, <1>2, <2>1
  <2> QED
    BY <1>0, <2>2 DEF ReadingInv, PaneRead, Latest, Has
<1>8. Overlaps'
  BY <1>0, <1>2 DEF ReadingInv, Overlaps, Latest, Has, HistoryTyped
<1>9. Gains'
  <2>1. CASE pane.bottom
    BY <1>0, <1>1, <1>4, <2>1, Constant DEF Gains
  <2>2. CASE ~pane.bottom
    BY <1>0, <1>2, <2>2 DEF Gains, ReadingInv
  <2> QED
    BY <2>1, <2>2
<1>10. OneWordless'
  BY <1>0, <1>1, <1>2 DEF OneWordless, ReadingInv
<1> QED
  BY <1>0, <1>3, <1>5, <1>6, <1>7, <1>8, <1>9, <1>10
  DEF HistoryInv, ReadingInv, NoGapBeforeCheckpoint

LEMMA ReadsFirst ==
    ASSUME EveryScrollGains, HistoryInv, ReadWindow  PROVE HistoryInv'
<1>0. /\ reader = "wait" /\ found' = Fresh /\ reader' = "look"
      /\ UNCHANGED <<tail, mark, wordless, limit, comings, pane, rounds>>
      /\ HistoryTyped /\ Spread(wordless)
  BY DEF ReadWindow, HistoryFrame, HistoryInv
<1>1. /\ tail \in Nat /\ comings \in Nat /\ mark \in 0..tail /\ limit \in Nat
      /\ mark \notin wordless
      /\ pane.lo \in Nat \ {0} /\ pane.hi \in Nat /\ wordless \subseteq 1..tail
      /\ pane.bottom /\ pane = AtBottom(tail) /\ found = <<>> /\ rounds = 0
  <2>1. /\ pane.bottom /\ pane = AtBottom(tail) /\ found = <<>> /\ rounds = 0
        /\ wordless \subseteq 1..tail
    BY <1>0 DEF HistoryTyped
  <2> QED
    BY <1>0, <2>1, Parts
<1>2. /\ pane.hi = tail
      /\ pane.lo = IF tail <= Rows THEN 1 ELSE tail - Rows + 1
  BY <1>1, Bottoms
<1>3. NewOnPage = (pane.lo .. tail) \ wordless
  <2>1. \A k : ~Contains(found, k)
    BY <1>1 DEF Contains
  <2> QED
    BY <1>2, <2>1 DEF NewOnPage, OnPage
<1>4. /\ Fresh \in Seq(Nat) /\ Len(Fresh) = Cardinality(NewOnPage)
      /\ \A i \in 1..Len(Fresh) : Fresh[i] \in NewOnPage
      /\ \A i, j \in 1..Len(Fresh) : i < j => Fresh[i] < Fresh[j]
      /\ \A k \in NewOnPage : \E i \in 1..Len(Fresh) : Fresh[i] = k
  BY <1>0, Windows
<1> DEFINE n == Len(Fresh)
<1>5. n \in Nat /\ found' \in Seq(Nat) /\ Len(found') = n
  BY <1>0, <1>4
<1>6. \A i \in 1..n :
         /\ Fresh[i] \in pane.lo .. tail /\ Fresh[i] \notin wordless
         /\ Fresh[i] \in Nat
  BY <1>1, <1>3, <1>4
<1>7. \A i \in 1..n : Fresh[i] <= Fresh[n]
  BY <1>4, <1>5, <1>6
<1>8. \A k \in pane.lo .. tail : k \in wordless \/ Has(k)'
  BY <1>0, <1>3, <1>4 DEF Has, Contains
<1>9. HistoryTyped'
  BY <1>0, <1>1, <1>5 DEF HistoryTyped, Reader
<1>10. Merged'
  BY <1>0, <1>1, <1>4, <1>5, <1>6 DEF Merged, Latest
<1>11. found' # <<>> => n >= 1 /\ Latest' = Fresh[n] /\ n \in 1..n
  BY <1>0, <1>4, <1>5 DEF Latest
<1>12. Closed'
  <2> SUFFICES ASSUME found' # <<>>
               PROVE  /\ mark <= Latest'
                      /\ \A k \in 1..Latest' : k \notin wordless /\ ~Has(k)' =>
                            \A i \in 1..n : k < Fresh[i]
    BY <1>0, <1>5 DEF Closed
  <2>1. mark <= Latest'
    <3>1. CASE mark >= pane.lo
      <4>1. mark \in NewOnPage
        BY <1>1, <1>3, <3>1
      <4>2. PICK i \in 1..n : Fresh[i] = mark
        BY <1>4, <4>1
      <4> QED
        BY <1>7, <1>11, <4>2
    <3>2. CASE mark < pane.lo
      BY <1>1, <1>6, <1>11, <3>2
    <3> QED
      BY <1>1, <3>1, <3>2
  <2>2. ASSUME NEW k \in 1..Latest', k \notin wordless, ~Has(k)',
               NEW i \in 1..n
        PROVE  k < Fresh[i]
    <3>1. Latest' \in pane.lo .. tail
      BY <1>6, <1>11
    <3>2. k < pane.lo
      BY <1>1, <1>8, <2>2, <3>1
    <3> QED
      BY <1>1, <1>6, <3>1, <3>2
  <2> QED
    BY <2>1, <2>2
<1>13. PaneRead'
  <2>1. found' # <<>> => \A k \in pane.lo .. Latest' : k \in pane.lo .. tail
    BY <1>1, <1>6, <1>11
  <2> QED
    BY <1>0, <1>8, <2>1 DEF PaneRead
<1>14. Gains'
  BY <1>0, <1>1, <1>5, Constant DEF Gains
<1>15. OneWordless'
  <2>1. ASSUME found' = <<>>  PROVE tail <= 1
    <3>1. n = 0
      BY <1>0, <2>1
    <3>2. NewOnPage = {}
      BY <1>4, <3>1
    <3>3. SUFFICES ASSUME tail >= 2  PROVE FALSE
      BY <1>1
    <3>4. tail - 1 \in pane.lo .. tail /\ tail \in pane.lo .. tail
      BY <1>1, <1>2, <3>3, Constant
    <3>5. tail - 1 \in wordless /\ tail \in wordless
      BY <1>3, <3>2, <3>4
    <3>6. \/ tail = tail - 1
          \/ Max({tail - (tail - 1), (tail - 1) - tail}) >= Stride - MaxArrivals
      BY <1>0, <3>5 DEF Spread
    <3>7. tail - (tail - 1) = 1 /\ (tail - 1) - tail = -1 /\ tail # tail - 1
      BY <1>1
    <3>8. Max({1, -1}) = 1
      BY Extremes
    <3> QED
      BY <3>6, <3>7, <3>8, Constant
  <2> QED
    BY <1>0, <1>1, <2>1 DEF OneWordless
<1>16. Overlaps' /\ Ends' /\ NoGapBeforeCheckpoint'
  BY <1>0 DEF Overlaps, Ends, NoGapBeforeCheckpoint
<1> QED
  BY <1>0, <1>9, <1>10, <1>12, <1>13, <1>14, <1>15, <1>16
  DEF HistoryInv, ReadingInv, Spread

LEMMA Scrolls ==
    ASSUME EveryScrollGains, HistoryInv, ScrollUp  PROVE HistoryInv'
<1>0. /\ reader = "look" /\ pane.lo > 1 /\ pane' = At(Scrolled)
      /\ reader' = "read" /\ HistoryTyped /\ Spread(wordless)
      /\ UNCHANGED <<tail, mark, wordless, limit, comings, found, rounds>>
      /\ Merged /\ Closed /\ PaneRead /\ Gains /\ OneWordless
  BY DEF ScrollUp, HistoryFrame, HistoryInv, ReadingInv
<1>1. /\ tail \in Nat /\ comings \in 0..MaxArrivals /\ MaxArrivals \in Nat
      /\ pane.lo \in Nat \ {0} /\ found \in Seq(Nat)
      /\ \A i \in 1..Len(found) : found[i] \in Nat
      /\ pane.bottom => pane = AtBottom(tail)
  <2>1. pane.bottom => pane = AtBottom(tail)
    BY <1>0 DEF HistoryTyped
  <2> QED
    BY <1>0, <2>1, Parts, Constant
<1>2. /\ Scrolled \in Int /\ Scrolled >= 1 /\ Scrolled <= pane.lo
      /\ Scrolled >= pane.lo - Stride
      /\ Scrolled = 1 \/ Scrolled = pane.lo - Stride
  <2>1. Scrolled = IF 1 >= pane.lo - Stride THEN 1 ELSE pane.lo - Stride
    <3>1. PICK b \in Int : b = pane.lo - Stride
      BY <1>1, Constant
    <3>2. Max({1, b}) = IF 1 >= b THEN 1 ELSE b
      BY Extremes
    <3> QED
      BY <3>1, <3>2 DEF Scrolled
  <2> QED
    BY <1>1, <2>1, Constant
<1>3. /\ pane' \in [lo: Nat \ {0}, hi: Nat, bottom: BOOLEAN]
      /\ pane'.lo = Scrolled /\ pane'.hi <= tail /\ ~pane'.bottom
      /\ pane'.hi = tail \/ pane'.hi = Scrolled + Rows - 1
  BY <1>0, <1>2, Panes
<1>4. found # <<>>
  <2> SUFFICES ASSUME found = <<>>  PROVE FALSE
    OBVIOUS
  <2>1. pane = AtBottom(tail) /\ tail <= 1 + comings
    BY <1>0, <1>1 DEF OneWordless
  <2>2. tail <= Rows
    BY <1>1, <2>1, Constant
  <2>3. pane.lo = 1
    BY <1>1, <2>1, <2>2, Bottoms
  <2> QED
    BY <1>0, <2>3
<1>5. Len(found) \in Nat \ {0} /\ Len(found) \in 1..Len(found)
  BY <1>1, <1>4
<1>6. Latest \in Nat /\ Latest <= tail
  BY <1>0, <1>1, <1>5 DEF Latest, Merged
<1>7. HistoryTyped'
  BY <1>0, <1>3 DEF HistoryTyped, Reader
<1>8. Merged'
  BY <1>0, <1>1, <1>2, <1>3 DEF Merged, Latest
<1>9. Closed'
  BY <1>0 DEF Closed, Latest, Has
<1>10. Overlaps'
  <2>1. ASSUME NEW k \in pane'.lo .. Latest
        PROVE  k \in wordless \/ Has(k) \/ k <= pane'.hi
    <3>1. CASE k >= pane.lo
      BY <1>0, <1>1, <1>3, <1>4, <1>6, <2>1, <3>1 DEF PaneRead
    <3>2. CASE k < pane.lo
      <4>1. pane.lo <= Scrolled + Rows - 1
        <5>1. /\ pane.lo \in Int /\ Scrolled \in Int /\ Rows \in Int
              /\ Stride \in Int /\ Stride < Rows
          BY <1>1, <1>2, Constant
        <5> QED
          BY <1>2, <5>1
      <4>2. k \in Int /\ k <= Latest /\ k < pane.lo /\ Latest <= tail
        BY <1>1, <1>2, <1>3, <1>6, <3>2
      <4>3. tail \in Int /\ pane.lo \in Int /\ Latest \in Int
            /\ Scrolled + Rows - 1 \in Int
        BY <1>1, <1>2, <1>6, Constant
      <4>4. k <= tail /\ k <= Scrolled + Rows - 1
        BY <4>1, <4>2, <4>3
      <4> QED
        BY <1>3, <4>4
    <3> QED
      BY <1>1, <1>2, <1>3, <3>1, <3>2
  <2>2. ASSUME pane'.lo # 1
        PROVE  /\ pane'.lo + Gain <= pane'.hi
               /\ \A i \in 1..Len(found) : found[i] > pane'.lo + Gain
    <3>0. Scrolled = pane.lo - Stride
      BY <1>2, <1>3, <2>2
    <3>1. Scrolled + Gain + 1 + MaxArrivals = pane.lo
      <4>1. pane.lo \in Int /\ Stride \in Int /\ MaxArrivals \in Int
        BY <1>1, Constant
      <4>2. Gain = Stride - MaxArrivals - 1
        BY Constant
      <4> QED
        BY <3>0, <4>1, <4>2
    <3>2. \A i \in 1..Len(found) : found[i] > Scrolled + Gain
      <4>1. \A i \in 1..Len(found) : found[i] + comings >= pane.lo
        BY <1>0 DEF Merged
      <4>2. \A i \in 1..Len(found) : found[i] \in Int
        BY <1>1
      <4>3. /\ Scrolled \in Int /\ Gain \in Int /\ MaxArrivals \in Int
            /\ comings \in Int /\ comings <= MaxArrivals
        BY <1>1, <1>2, Constant
      <4> QED
        BY <3>1, <4>1, <4>2, <4>3
    <3>3. Latest > Scrolled + Gain
      BY <1>5, <3>2 DEF Latest
    <3>4. Scrolled + Gain <= tail /\ Scrolled + Gain <= Scrolled + Rows - 1
      BY <1>1, <1>2, <1>6, <3>3, Constant
    <3> QED
      BY <1>3, <3>2, <3>4
  <2>3. Latest' = Latest /\ (\A k : Has(k)' <=> Has(k))
    BY <1>0 DEF Latest, Has
  <2> QED
    BY <1>0, <1>4, <2>1, <2>2, <2>3 DEF Overlaps
<1>11. Gains'
  BY <1>0 DEF Gains
<1>12. PaneRead' /\ OneWordless' /\ Ends' /\ NoGapBeforeCheckpoint'
  BY <1>0 DEF PaneRead, OneWordless, Ends, NoGapBeforeCheckpoint
<1> QED
  BY <1>0, <1>7, <1>8, <1>9, <1>10, <1>11, <1>12
  DEF HistoryInv, ReadingInv, Spread

LEMMA ReadsNext ==
    ASSUME EveryScrollGains, HistoryInv, ReadOlder  PROVE HistoryInv'
<1>0. /\ reader = "read" /\ found' = Fresh \o found /\ rounds' = rounds + 1
      /\ reader' = IF MarkVisible \/ Fresh = <<>> THEN "cut" ELSE "look"
      /\ UNCHANGED <<tail, mark, wordless, limit, comings, pane>>
      /\ HistoryTyped /\ Spread(wordless)
      /\ Merged /\ Closed /\ Overlaps /\ Gains
  BY DEF ReadOlder, HistoryFrame, HistoryInv, ReadingInv
<1>1. /\ tail \in Nat /\ comings \in Nat /\ rounds \in Nat /\ mark \in 0..tail
      /\ pane.lo \in Nat \ {0} /\ pane.hi \in Nat /\ pane.hi <= tail
      /\ ~pane.bottom /\ found \in Seq(Nat) /\ found # <<>>
      /\ \A i \in 1..Len(found) : found[i] \in Nat
  <2>1. ~pane.bottom /\ found # <<>>
    BY <1>0 DEF HistoryTyped, Overlaps
  <2> QED
    BY <1>0, <2>1, Parts
<1>2. /\ Fresh \in Seq(Nat) /\ Len(Fresh) = Cardinality(NewOnPage)
      /\ \A i \in 1..Len(Fresh) : Fresh[i] \in NewOnPage
      /\ \A i, j \in 1..Len(Fresh) : i < j => Fresh[i] < Fresh[j]
      /\ \A k \in NewOnPage : \E i \in 1..Len(Fresh) : Fresh[i] = k
      /\ IsFiniteSet(NewOnPage)
  BY <1>0, Windows
<1> DEFINE n == Len(Fresh)
           m == Len(found)
<1>3. /\ n \in Nat /\ m \in Nat \ {0} /\ found' \in Seq(Nat)
      /\ Len(found') = n + m /\ found' # <<>>
      /\ \A i \in 1..n : found'[i] = Fresh[i]
      /\ \A i \in (n + 1)..(n + m) : found'[i] = found[i - n]
      /\ \A i \in (n + 1)..(n + m) : i - n \in 1..m
  <2>1. n \in Nat /\ m \in Nat \ {0}
    BY <1>1, <1>2
  <2>2. \A i \in (n + 1)..(n + m) : i - n \in 1..m
    BY <2>1
  <2>3. Fresh \o found \in Seq(Nat) /\ Len(Fresh \o found) = n + m
    <3>1. Fresh \in Seq(Nat) /\ found \in Seq(Nat)
      BY <1>1, <1>2
    <3> QED
      BY <3>1
  <2>4. \A i \in 1..(n + m) : (Fresh \o found)[i] =
            IF i <= n THEN Fresh[i] ELSE found[i - n]
    <3>1. Fresh \in Seq(Nat) /\ found \in Seq(Nat)
      BY <1>1, <1>2
    <3> QED
      BY <3>1
  <2>5. found' # <<>>
    BY <1>0, <2>1, <2>3
  <2>6. /\ \A i \in 1..n : i \in 1..(n + m) /\ i <= n
        /\ \A i \in (n + 1)..(n + m) : i \in 1..(n + m) /\ ~(i <= n)
    BY <2>1
  <2> HIDE DEF n, m
  <2>7. /\ \A i \in 1..n : found'[i] = Fresh[i]
        /\ \A i \in (n + 1)..(n + m) : found'[i] = found[i - n]
    BY <1>0, <2>4, <2>6
  <2> QED
    BY <1>0, <2>1, <2>2, <2>3, <2>5, <2>7
<1>4. Latest' = Latest /\ m \in 1..m /\ Latest \in Nat /\ Latest <= tail
  <2>1. found'[n + m] = found[m]
    BY <1>3
  <2> QED
    BY <1>0, <1>1, <1>3, <2>1 DEF Latest, Merged
<1>18. /\ \A i \in 1..n : Fresh[i] \in NewOnPage
       /\ \A i, j \in 1..n : i < j => Fresh[i] < Fresh[j]
       /\ \A k \in NewOnPage : \E i \in 1..n : Fresh[i] = k
       /\ n = Cardinality(NewOnPage) /\ IsFiniteSet(NewOnPage)
       /\ \A i \in 1..m : found[i] \in Nat
       /\ Fresh = <<>> => n = 0
  BY <1>1, <1>2
<1>19. \A i \in 1..m :
          /\ found[i] \in 1..tail /\ found[i] \notin wordless
          /\ found[i] + comings >= pane.lo
          /\ \A j \in 1..m : i < j =>
                found[i] # found[j] /\ (found[i] < found[j] \/ found[i] > Latest)
  BY <1>0 DEF Merged
<1>20. /\ mark <= Latest
       /\ \A k \in 1..Latest : k \notin wordless /\ ~Has(k) =>
             \A i \in 1..m : k < found[i]
  BY <1>0, <1>1 DEF Closed
<1>21. /\ \A k \in pane.lo .. Latest : k \in wordless \/ Has(k) \/ k <= pane.hi
       /\ pane.lo # 1 => /\ pane.lo + Gain <= pane.hi
                         /\ \A i \in 1..m : found[i] > pane.lo + Gain
       /\ pane.lo # 1 => m >= Gain * rounds
  BY <1>0 DEF Overlaps, Gains
<1>22. /\ \A k : Has(k) <=> \E i \in 1..m : found[i] = k
       /\ \A k : Has(k)' <=> \E i \in 1..(n + m) : found'[i] = k
  BY <1>3 DEF Has, Contains
<1> HIDE DEF n, m
<1>5. \A k : k \in NewOnPage <=>
               k \in pane.lo .. pane.hi /\ k \notin wordless /\ ~Has(k)
  BY DEF NewOnPage, OnPage, Has
<1>6. \A k : Has(k)' <=> Has(k) \/ k \in NewOnPage
  <2> TAKE k
  <2>1. ASSUME Has(k)'  PROVE Has(k) \/ k \in NewOnPage
    <3>1. PICK i \in 1..(n + m) : found'[i] = k
      BY <1>22, <2>1
    <3>2. CASE i \in 1..n
      BY <1>3, <1>18, <3>1, <3>2
    <3>3. CASE i \in (n + 1)..(n + m)
      BY <1>3, <1>22, <3>1, <3>3
    <3> QED
      BY <1>3, <3>1, <3>2, <3>3
  <2>2. ASSUME Has(k)  PROVE Has(k)'
    <3>1. PICK i \in 1..m : found[i] = k
      BY <1>22, <2>2
    <3>2. i + n \in (n + 1)..(n + m) /\ (i + n) - n = i
      BY <1>3
    <3>3. PICK j \in (n + 1)..(n + m) : j - n = i
      BY <3>2
    <3>4. found'[j] = k
      BY <1>3, <3>1, <3>3
    <3>5. j \in 1..(n + m)
      BY <1>3
    <3> QED
      BY <1>22, <3>4, <3>5
  <2>3. ASSUME k \in NewOnPage  PROVE Has(k)'
    <3>1. PICK i \in 1..n : Fresh[i] = k
      BY <1>18, <2>3
    <3>2. found'[i] = k /\ i \in 1..(n + m)
      BY <1>3, <3>1
    <3> QED
      BY <1>22, <3>2
  <2> QED
    BY <2>1, <2>2, <2>3
<1>7. \A i \in 1..n : /\ Fresh[i] \in pane.lo .. pane.hi
                      /\ Fresh[i] \notin wordless /\ ~Has(Fresh[i])
                      /\ Fresh[i] \in Nat
  BY <1>1, <1>18, <1>5
<1>8. \A j \in 1..m : Has(found[j])
  BY <1>22
<1>9. HistoryTyped'
  BY <1>0, <1>1, <1>3 DEF HistoryTyped, Reader
<1>10. Merged'
  <2>1. ASSUME NEW i \in 1..(n + m)
        PROVE  /\ found'[i] \in 1..tail /\ found'[i] \notin wordless
               /\ found'[i] + comings >= pane.lo
    <3>1. CASE i \in 1..n
      <4>1. /\ found'[i] \in pane.lo .. pane.hi /\ found'[i] \notin wordless
            /\ found'[i] \in Nat
        BY <1>3, <1>7, <3>1
      <4> QED
        BY <1>1, <4>1
    <3>2. CASE i \in (n + 1)..(n + m)
      BY <1>3, <1>19, <3>2
    <3> QED
      BY <1>3, <3>1, <3>2
  <2>2. ASSUME NEW i \in 1..(n + m), NEW j \in 1..(n + m), i < j
        PROVE  /\ found'[i] # found'[j]
               /\ found'[i] < found'[j] \/ found'[i] > Latest
    <3>1. CASE j \in 1..n
      <4>1. i \in 1..n /\ Fresh[i] < Fresh[j]
        BY <1>3, <1>18, <2>2, <3>1
      <4> QED
        BY <1>3, <1>7, <3>1, <4>1
    <3>2. CASE i \in 1..n /\ j \in (n + 1)..(n + m)
      <4>1. found'[i] = Fresh[i] /\ found'[j] = found[j - n] /\ j - n \in 1..m
        BY <1>3, <3>2
      <4>2. Fresh[i] # found[j - n]
        BY <1>7, <1>8, <3>2, <4>1
      <4>3. Fresh[i] \in 1..Latest => Fresh[i] < found[j - n]
        BY <1>7, <1>20, <3>2, <4>1
      <4>4. Fresh[i] \in 1..Latest \/ Fresh[i] > Latest
        BY <1>1, <1>4, <1>7, <3>2
      <4> QED
        BY <4>1, <4>2, <4>3, <4>4
    <3>3. CASE i \in (n + 1)..(n + m)
      <4>1. /\ j \in (n + 1)..(n + m) /\ i - n \in 1..m /\ j - n \in 1..m
            /\ i - n < j - n
        BY <1>3, <2>2, <3>3
      <4>2. found'[i] = found[i - n] /\ found'[j] = found[j - n]
        BY <1>3, <3>3, <4>1
      <4> QED
        BY <1>19, <4>1, <4>2
    <3> QED
      BY <1>3, <2>2, <3>1, <3>2, <3>3
  <2>3. Len(found') = n + m /\ Latest' = Latest
        /\ UNCHANGED <<tail, wordless, comings, pane>>
    BY <1>0, <1>3, <1>4
  <2> QED
    BY <2>1, <2>2, <2>3 DEF Merged
<1>11. ASSUME NEW k \in pane.lo .. Latest  PROVE k \in wordless \/ Has(k)'
  <2>1. k \in wordless \/ Has(k) \/ k <= pane.hi
    BY <1>21
  <2>2. k <= pane.hi => k \in pane.lo .. pane.hi
    <3>1. pane.lo \in Int /\ pane.hi \in Int /\ Latest \in Int
      BY <1>1, <1>4
    <3> QED
      BY <3>1
  <2> QED
    BY <1>5, <1>6, <2>1, <2>2
<1>12. Closed'
  <2>1. ASSUME NEW k \in 1..Latest, k \notin wordless, ~Has(k)',
               NEW i \in 1..(n + m)
        PROVE  k < found'[i]
    <3>1. k < pane.lo
      BY <1>1, <1>4, <1>11, <2>1
    <3>2. CASE i \in 1..n
      <4>1. /\ found'[i] = Fresh[i] /\ Fresh[i] \in pane.lo .. pane.hi
            /\ Fresh[i] \in Int
        BY <1>3, <1>7, <3>2
      <4>2. pane.lo \in Int /\ k \in Int
        BY <1>1, <1>4
      <4> QED
        BY <3>1, <4>1, <4>2
    <3>3. CASE i \in (n + 1)..(n + m)
      BY <1>3, <1>6, <1>20, <2>1, <3>3
    <3> QED
      BY <1>3, <3>2, <3>3
  <2> QED
    BY <1>0, <1>3, <1>4, <1>20, <2>1 DEF Closed
<1>13. PaneRead'
  BY <1>0, <1>4, <1>11 DEF PaneRead
<1>14. pane.lo # 1 => n >= Gain
  <2> SUFFICES ASSUME pane.lo # 1  PROVE n >= Gain
    OBVIOUS
  <2> DEFINE D == (pane.lo .. (pane.lo + Gain)) \ wordless
  <2>1. /\ pane.lo + Gain <= pane.hi
        /\ \A i \in 1..m : found[i] > pane.lo + Gain
    BY <1>21
  <2>2. ASSUME NEW k \in D  PROVE k \in NewOnPage
    <3>1. k \in pane.lo .. pane.hi /\ k <= pane.lo + Gain /\ k \in Int
      <4>1. k \in pane.lo .. (pane.lo + Gain)
        OBVIOUS
      <4>2. pane.lo \in Int /\ pane.hi \in Int /\ Gain \in Int
        BY <1>1, Constant
      <4> QED
        BY <2>1, <4>1, <4>2
    <3>2. ~Has(k)
      <4>1. ASSUME NEW i \in 1..m  PROVE found[i] # k
        <5>1. pane.lo + Gain \in Int /\ found[i] > pane.lo + Gain
          BY <1>1, <2>1, Constant
        <5> QED
          BY <3>1, <5>1
      <4> QED
        BY <1>22, <4>1
    <3> QED
      BY <1>5, <3>1, <3>2
  <2>3. IsFiniteSet(D) /\ Cardinality(D) >= Gain
    <3>1. PICK a \in Int : a = pane.lo
      BY <1>1
    <3>2. /\ IsFiniteSet((a..(a + Gain)) \ wordless)
          /\ Cardinality((a..(a + Gain)) \ wordless) >= Gain
      BY <1>0, Neighbours, Constant
    <3> QED
      BY <3>1, <3>2
  <2>4. D \in SUBSET NewOnPage
    BY <2>2
  <2>5. Cardinality(D) <= Cardinality(NewOnPage) /\ Cardinality(D) \in Nat
    BY <1>18, <2>3, <2>4, FS_Subset, FS_CardinalityType
  <2> HIDE DEF D
  <2> QED
    BY <1>3, <1>18, <2>3, <2>5, Constant
<1>15. Gains'
  <2>1. CASE pane.lo = 1
    BY <1>0, <2>1 DEF Gains
  <2>2. CASE pane.lo # 1
    <3>1. m >= Gain * rounds /\ n >= Gain
      BY <1>14, <1>21, <2>2
    <3>2. Gain * (rounds + 1) = Gain * rounds + Gain /\ Gain * rounds \in Int
      BY <1>1, Constant
    <3>3. n + m >= Gain * (rounds + 1)
      BY <1>3, <3>1, <3>2, Constant
    <3>4. Gain' = Gain
      BY DEF Gain
    <3> QED
      BY <1>0, <1>3, <3>3, <3>4 DEF Gains
  <2> QED
    BY <2>1, <2>2
<1>16. Ends'
  <2> SUFFICES ASSUME reader' = "cut", NEW k \in (mark + 1)..Latest
               PROVE  k \in wordless \/ Has(k)'
    BY <1>0, <1>4 DEF Ends
  <2>1. MarkVisible \/ Fresh = <<>>
    BY <1>0
  <2>2. mark >= pane.lo \/ pane.lo = 1
    <3>2. Fresh = <<>> => pane.lo = 1
      BY <1>14, <1>18, Constant
    <3>3. MarkVisible => mark >= pane.lo
      BY <1>1 DEF MarkVisible, OnPage
    <3> QED
      BY <2>1, <3>2, <3>3
  <2>3. k \in pane.lo .. Latest
    BY <1>1, <1>4, <2>2
  <2> QED
    BY <1>11, <2>3
<1>17. Overlaps' /\ OneWordless' /\ NoGapBeforeCheckpoint'
  BY <1>0, <1>3 DEF Overlaps, OneWordless, NoGapBeforeCheckpoint
<1> QED
  BY <1>0, <1>9, <1>10, <1>12, <1>13, <1>15, <1>16, <1>17
  DEF HistoryInv, ReadingInv, Spread

LEMMA RendersNothing ==
    ASSUME EveryScrollGains, HistoryInv, NothingRendered  PROVE HistoryInv'
<1>1. /\ reader = "wait" /\ reader' = "done" /\ found = <<>> /\ HistoryTyped
      /\ UNCHANGED <<tail, mark, wordless, limit, comings, pane, found, rounds>>
      /\ Spread(wordless)
  BY DEF NothingRendered, HistoryFrame, HistoryInv, HistoryTyped
<1> QED
  BY <1>1 DEF HistoryInv, HistoryTyped, Reader, Spread, NoGapBeforeCheckpoint

\* Forty rounds, or more of them than the limit, have read enough.
LEMMA FortyScrolls ==
    ASSUME EveryScrollGains, HistoryTyped, rounds = MaxRounds
    PROVE  Gain * rounds >= limit
<1>1. limit \in 1..MaxLimit /\ MaxLimit \in Nat /\ MaxLimit <= 40 * Gain
  BY Constant DEF HistoryTyped, EveryScrollGains
<1>2. Max({4, limit + 2}) \in Int /\ Max({4, limit + 2}) >= limit + 2
  BY <1>1, Extremes
<1>3. MaxRounds = 40 \/ (MaxRounds \in Int /\ MaxRounds >= limit + 2)
  <2>1. PICK b \in Int : b = Max({4, limit + 2}) /\ b >= limit + 2
    BY <1>2
  <2>2. MaxRounds = Min({40, b})
    BY <2>1 DEF MaxRounds
  <2>3. Min({40, b}) = IF 40 >= b THEN b ELSE 40
    BY Extremes
  <2> QED
    BY <2>1, <2>2, <2>3
<1>4. \A a, b \in Nat : a >= 1 => a * b >= b
  OBVIOUS
<1>5. CASE MaxRounds = 40
  BY <1>1, <1>5, Constant
<1>6. CASE MaxRounds \in Int /\ MaxRounds >= limit + 2
  <2>1. rounds \in Nat /\ rounds >= limit
    BY <1>1, <1>6
  <2>2. Gain * rounds \in Int /\ Gain * rounds >= rounds
    BY <1>4, <2>1, Constant
  <2> QED
    BY <1>1, <2>1, <2>2
<1> QED
  BY <1>3, <1>5, <1>6

LEMMA Looks ==
    ASSUME EveryScrollGains, HistoryInv, LookEnds  PROVE HistoryInv'
<1>0. /\ reader = "look" /\ reader' = "cut" /\ (Enough \/ pane.lo = 1)
      /\ HistoryTyped /\ Spread(wordless)
      /\ UNCHANGED <<tail, mark, wordless, limit, comings, pane, found, rounds>>
      /\ Merged /\ Closed /\ PaneRead /\ Gains
  BY DEF LookEnds, HistoryFrame, HistoryInv, ReadingInv
<1>1. /\ tail \in Nat /\ mark \in 0..tail /\ pane.lo \in Nat \ {0}
      /\ found \in Seq(Nat) /\ rounds \in Nat /\ limit \in Nat
  BY <1>0, Parts
<1>2. Ends'
  <2> SUFFICES ASSUME found # <<>>, ~(Len(found) >= limit),
                      NEW k \in (mark + 1)..Latest
               PROVE  k \in wordless \/ Has(k)
    BY <1>0 DEF Ends, Latest, Has
  <2>1. Latest \in Nat
    BY <1>1 DEF Latest
  <2>2. mark >= pane.lo \/ pane.lo = 1
    <3>1. CASE MarkVisible
      BY <1>1, <3>1 DEF MarkVisible, OnPage
    <3>2. CASE rounds = MaxRounds
      <4>1. Gain * rounds >= limit /\ Gain * rounds \in Int
        BY <1>0, <1>1, <3>2, FortyScrolls, Constant
      <4>2. Len(found) \in Nat /\ ~(Len(found) >= Gain * rounds)
        BY <1>1, <4>1
      <4> QED
        BY <1>0, <4>2 DEF Gains
    <3> QED
      BY <1>0, <3>1, <3>2 DEF Enough
  <2>3. k \in pane.lo .. Latest
    BY <1>1, <2>1, <2>2
  <2> QED
    BY <1>0, <2>3 DEF PaneRead
<1>3. HistoryTyped'
  BY <1>0 DEF HistoryTyped, Reader
<1>4. Merged' /\ Closed' /\ PaneRead' /\ Gains' /\ Overlaps' /\ OneWordless'
  BY <1>0 DEF Merged, Closed, PaneRead, Gains, Overlaps, OneWordless, Latest,
              Has
<1> QED
  BY <1>0, <1>2, <1>3, <1>4
  DEF HistoryInv, ReadingInv, Spread, NoGapBeforeCheckpoint

\* What comes back: the messages after the mark, the newest of them first and
\* no more than the limit.
LEMMA CutsTail ==
    ASSUME HistoryInv, reader = "cut",
           NEW R, R = Reverse(NewestOf(AfterMark))
    PROVE  /\ R \in Seq(Nat) /\ Len(R) <= limit /\ Len(R) <= Len(found)
           /\ \A i \in 1..Len(R) : R[i] = found[Len(found) + 1 - i]
           /\ \E c \in 1..(Len(found) + 1) :
                /\ IF Has(mark) THEN c > 1 /\ found[c - 1] = mark ELSE c = 1
                /\ Len(R) = Len(found) - c + 1
                   \/ (Len(R) = limit /\ limit <= Len(found) - c + 1)
<1> DEFINE N == Len(found)
           P == {i \in 1..N : found[i] = mark}
           c == IF Has(mark) THEN SelectInSeq(found, LAMBDA k : k = mark) + 1
                ELSE 1
<1>0. found \in Seq(Nat) /\ N \in Nat /\ limit \in Nat \ {0} /\ Merged
  BY HistoryAssumption DEF HistoryInv, ReadingInv, HistoryTyped
<1>1. /\ c \in 1..(N + 1)
      /\ IF Has(mark) THEN c > 1 /\ found[c - 1] = mark ELSE c = 1
  <2>1. CASE Has(mark)
    <3>1. PICK i \in 1..N : found[i] = mark
      BY <2>1 DEF Has, Contains
    <3>2. \A j \in 1..N : found[j] = mark => j = i
      <4> SUFFICES ASSUME NEW j \in 1..N, found[j] = mark, j # i  PROVE FALSE
        OBVIOUS
      <4>1. i < j \/ j < i
        BY <1>0
      <4> QED
        BY <1>0, <3>1, <4>1 DEF Merged
    <3>3. P = {i} /\ P # {}
      BY <3>1, <3>2
    <3>4. i \in Int
      BY <1>0
    <3>5. Min({i}) = i
      BY <3>4 DEF Min
    <3>6. SelectInSeq(found, LAMBDA k : k = mark) = i
      <4>1. SelectInSeq(found, LAMBDA k : k = mark) =
                IF P # {} THEN Min(P) ELSE 0
        BY DEF SelectInSeq
      <4> HIDE DEF P
      <4> QED
        BY <3>3, <3>5, <4>1
    <3>7. c = i + 1
      BY <2>1, <3>6
    <3> HIDE DEF c
    <3>8. (i + 1) - 1 = i /\ i + 1 \in 1..(N + 1) /\ i + 1 > 1
      BY <1>0
    <3> QED
      BY <2>1, <3>1, <3>7, <3>8
  <2>2. CASE ~Has(mark)
    BY <1>0, <2>2
  <2> QED
    BY <2>1, <2>2
<1>2. AfterMark = SubSeq(found, c, N)
  BY DEF AfterMark, Has
<1> DEFINE A == AfterMark
           a == N - c + 1
<1> HIDE DEF c
<1>3. /\ a \in Nat /\ A \in Seq(Nat) /\ Len(A) = a
      /\ \A i \in 1..a : A[i] = found[c + i - 1]
  <2>1. c \in Nat /\ c >= 1 /\ c <= N + 1 /\ a \in Nat
    BY <1>0, <1>1
  <2>2. \A i \in c..N : found[i] \in Nat
    BY <1>0, <2>1
  <2>3. SubSeq(found, c, N) = [i \in 1..a |-> found[i + c - 1]]
    BY <1>0, <2>1
  <2>4. \A i \in 1..a : i + c - 1 \in c..N /\ i + c - 1 = c + i - 1
    BY <1>0, <2>1
  <2>5. A = [i \in 1..a |-> found[i + c - 1]]
    BY <1>2, <2>3
  <2>6. A \in Seq(Nat) /\ Len(A) = a
    <3> HIDE DEF a, A
    <3>1. \A i \in 1..a : found[i + c - 1] \in Nat
      BY <2>2, <2>4
    <3> QED
      BY <2>1, <2>5, <3>1
  <2> HIDE DEF a, A
  <2> QED
    BY <2>1, <2>4, <2>5, <2>6
<1> DEFINE f == Max({1, a - limit + 1})
           L == a - f + 1
           B == NewestOf(A)
<1> HIDE DEF a, A
<1>4. f = IF a <= limit THEN 1 ELSE a - limit + 1
  BY <1>0, <1>3, Extremes
<1>5. f \in Nat /\ f >= 1 /\ f <= a + 1 /\ L \in Nat
      /\ L = IF a <= limit THEN a ELSE limit
  <2> HIDE DEF f
  <2> QED
    BY <1>0, <1>3, <1>4
<1> HIDE DEF f
<1>6. /\ B \in Seq(Nat) /\ Len(B) = L
      /\ \A i \in 1..L : B[i] = A[f + i - 1]
  <2>1. B = SubSeq(A, f, a)
    BY <1>3 DEF NewestOf, f
  <2>2. SubSeq(A, f, a) = [i \in 1..L |-> A[i + f - 1]]
    BY <1>3, <1>5
  <2>3. \A i \in 1..L : i + f - 1 \in 1..a /\ i + f - 1 = f + i - 1
    BY <1>3, <1>5
  <2>4. \A i \in 1..a : A[i] \in Nat
    BY <1>3
  <2> HIDE DEF L, B
  <2>5. \A i \in 1..L : A[i + f - 1] \in Nat
    BY <2>3, <2>4
  <2>6. B = [i \in 1..L |-> A[i + f - 1]]
    BY <2>1, <2>2
  <2>7. B \in Seq(Nat) /\ Len(B) = L
    BY <1>5, <2>5, <2>6
  <2> QED
    BY <2>3, <2>6, <2>7
<1> HIDE DEF L, B
<1>7. R = [i \in 1..L |-> B[(L - i) + 1]]
  BY <1>6 DEF Reverse, A, B
<1>8. \A i \in 1..L : (L - i) + 1 \in 1..L /\ N + 1 - i \in 1..N
  <2>1. /\ N \in Nat /\ a \in Nat /\ f \in Nat /\ f >= 1 /\ c \in Nat /\ c >= 1
        /\ L \in Nat /\ L = a - f + 1 /\ a = N - c + 1
    BY <1>0, <1>1, <1>3, <1>5 DEF L, a
  <2>2. L <= N
    BY <2>1
  <2> QED
    BY <2>1, <2>2
<1>9. \A i \in 1..L : R[i] = found[N + 1 - i]
  <2> SUFFICES ASSUME NEW i \in 1..L  PROVE R[i] = found[N + 1 - i]
    OBVIOUS
  <2>1. PICK j \in 1..L : j = (L - i) + 1
    BY <1>8
  <2>2. R[i] = B[j] /\ B[j] = A[f + j - 1]
    BY <1>6, <1>7, <2>1
  <2>3. PICK h \in 1..a : h = f + j - 1
    BY <1>3, <1>5 DEF L
  <2>4. A[h] = found[c + h - 1]
    BY <1>3
  <2>5. c + h - 1 = N + 1 - i
    BY <1>0, <1>1, <1>3, <1>5, <2>1, <2>3 DEF L, a
  <2> QED
    BY <2>2, <2>3, <2>4, <2>5
<1>10. R \in Seq(Nat) /\ Len(R) = L
  <2>1. \A i \in 1..L : B[(L - i) + 1] \in Nat
    BY <1>6, <1>8
  <2> QED
    BY <1>5, <1>7, <2>1
<1>11. L <= limit /\ L <= N /\ (L = a \/ (L = limit /\ limit <= a))
  BY <1>0, <1>1, <1>3, <1>5 DEF a
<1> QED
  BY <1>1, <1>9, <1>10, <1>11 DEF a

LEMMA Cuts ==
    ASSUME EveryScrollGains, HistoryInv, Cut  PROVE HistoryInv'
<1>0. /\ reader = "cut" /\ reader' = "done"
      /\ found' = Reverse(NewestOf(AfterMark))
      /\ UNCHANGED <<tail, mark, wordless, limit, comings, pane, rounds>>
      /\ HistoryTyped /\ Spread(wordless) /\ Merged /\ Closed /\ Ends
  BY DEF Cut, HistoryFrame, HistoryInv, ReadingInv
<1> DEFINE N == Len(found)
           L == Len(found')
<1>1. /\ found' \in Seq(Nat) /\ L <= limit /\ L <= N
      /\ \A i \in 1..L : found'[i] = found[N + 1 - i]
  BY <1>0, CutsTail
<1>2. PICK c \in 1..(N + 1) :
        /\ IF Has(mark) THEN c > 1 /\ found[c - 1] = mark ELSE c = 1
        /\ L = N - c + 1 \/ (L = limit /\ limit <= N - c + 1)
  BY <1>0, CutsTail
<1>3. /\ found \in Seq(Nat) /\ N \in Nat /\ L \in Nat /\ limit \in Nat
      /\ tail \in Nat /\ mark \in 0..tail /\ mark \notin wordless
      /\ \A i \in 1..N : found[i] \in Nat
  <2>1. /\ found \in Seq(Nat) /\ limit \in Nat /\ tail \in Nat
        /\ mark \in 0..tail /\ mark \notin wordless
    BY <1>0, Parts
  <2>2. N \in Nat /\ \A i \in 1..N : found[i] \in Nat
    BY <2>1
  <2>3. L \in Nat
    BY <1>1
  <2> QED
    BY <2>1, <2>2, <2>3
<1>4. HistoryTyped'
  BY <1>0, <1>1 DEF HistoryTyped, Reader
<1>7. DOMAIN found' = 1..L /\ UNCHANGED <<mark, wordless, limit>>
  BY <1>0, <1>1
<1>8. found' # <<>> => L # 0 /\ found # <<>> /\ Latest = found[N]
  BY <1>1, <1>3 DEF Latest
<1>9. /\ \A k : Has(k) <=> \E i \in 1..N : found[i] = k
      /\ \A k : Contains(found', k) <=> \E i \in 1..L : found'[i] = k
  BY DEF Has, Contains
<1>10. \A i \in 1..N : /\ found[i] \in 1..tail /\ found[i] \notin wordless
                        /\ \A j \in 1..N : i < j =>
                              found[i] # found[j]
                              /\ (found[i] < found[j] \/ found[i] > Latest)
  BY <1>0 DEF Merged
<1>11. /\ found # <<>> =>
            /\ mark <= Latest
            /\ \A k \in 1..Latest : k \notin wordless /\ ~Has(k) =>
                  \A i \in 1..N : k < found[i]
       /\ found # <<>> /\ ~(N >= limit) =>
            \A k \in (mark + 1)..Latest : k \in wordless \/ Has(k)
  BY <1>0 DEF Closed, Ends
<1> HIDE DEF L, N
<1>5. ASSUME found' # <<>>  PROVE NoGapBeforeCheckpoint'
  <2>1. L >= 1 /\ N >= 1 /\ found # <<>> /\ found'[1] = Latest
    <3>1. L >= 1 /\ N >= 1 /\ N + 1 - 1 = N /\ 1 \in 1..L
      BY <1>1, <1>3, <1>5, <1>8
    <3> QED
      BY <1>1, <1>5, <1>8, <3>1
  <2>2. \A i \in 1..L : N + 1 - i \in 1..N /\ N + 1 - i >= c
    <3>1. c \in Nat /\ c >= 1 /\ c <= N + 1 /\ L <= N - c + 1
      BY <1>2, <1>3
    <3> QED
      BY <1>3, <3>1
  <2>3. Latest \in Nat /\ mark <= Latest
    BY <1>3, <1>8, <1>5, <1>11, <2>1
  <2>5. IsInjective(found')
    <3> SUFFICES ASSUME NEW i \in 1..L, NEW j \in 1..L, found'[i] = found'[j],
                        i # j
                 PROVE  FALSE
      BY <1>7 DEF IsInjective
    <3>1. PICK p \in 1..N : p = N + 1 - i
      BY <2>2
    <3>2. PICK q \in 1..N : q = N + 1 - j
      BY <2>2
    <3>3. p < q \/ q < p
      BY <1>3, <3>1, <3>2
    <3>4. found[p] = found[q]
      BY <1>1, <3>1, <3>2
    <3> QED
      BY <1>10, <3>3, <3>4
  <2>6. \A q \in 1..N : q >= c => found[q] > mark
    <3> SUFFICES ASSUME NEW q \in 1..N, q >= c  PROVE found[q] > mark
      OBVIOUS
    <3>1. CASE Has(mark)
      <4>1. PICK b \in 1..N : b = c - 1
        BY <1>2, <1>3, <3>1
      <4>2. found[b] = mark /\ b < q
        BY <1>2, <1>3, <3>1, <4>1
      <4>3. mark # found[q] /\ (mark < found[q] \/ mark > Latest)
        BY <1>10, <4>2
      <4> QED
        BY <1>3, <2>3, <4>3
    <3>2. CASE ~Has(mark)
      <4>1. CASE mark = 0
        BY <1>10, <4>1
      <4>2. CASE mark # 0
        <5>1. mark \in 1..Latest
          BY <1>3, <2>3, <4>2
        <5> QED
          BY <1>3, <1>11, <2>1, <3>2, <5>1
      <4> QED
        BY <4>1, <4>2
    <3> QED
      BY <3>1, <3>2
  <2>7. \A i \in 1..L : found'[i] > mark
    <3> SUFFICES ASSUME NEW i \in 1..L  PROVE found'[i] > mark
      OBVIOUS
    <3>1. PICK q \in 1..N : q = N + 1 - i /\ q >= c
      BY <2>2
    <3> QED
      BY <1>1, <2>6, <3>1
  <2>8. ASSUME NEW k \in (mark + 1)..Latest, k \notin wordless,
               ~Contains(found', k)
        PROVE  Cardinality({i \in 1..L : found'[i] > k}) = limit
    <3>0. k \in Nat /\ k > mark /\ k <= Latest /\ k \in 1..Latest
      BY <1>3, <2>3
    <3>1. ~Has(k) => \A q \in 1..N : found[q] > k
      BY <1>3, <1>11, <2>1, <2>8, <3>0
    <3>2. ASSUME NEW q \in 1..N, found[q] = k  PROVE q < N + 1 - L
      <4> SUFFICES ASSUME q >= N + 1 - L  PROVE FALSE
        BY <1>3
      <4>1. PICK i \in 1..L : i = N + 1 - q
        BY <1>3
      <4>2. N + 1 - i = q
        BY <1>3, <4>1
      <4>3. found'[i] = k
        BY <1>1, <3>2, <4>2
      <4> QED
        BY <1>9, <2>8, <4>3
    <3>3. L = limit
      <4> SUFFICES ASSUME L # limit  PROVE FALSE
        OBVIOUS
      <4>1. L = N - c + 1
        BY <1>2
      <4>2. Has(k)
        <5>1. CASE Has(mark)
          <6>1. PICK b \in 1..N : b = c - 1
            BY <1>2, <1>3, <5>1
          <6>2. found[b] = mark
            BY <1>2, <5>1, <6>1
          <6> QED
            BY <1>3, <3>0, <3>1, <6>2
        <5>2. CASE ~Has(mark)
          <6>1. ~(N >= limit)
            BY <1>1, <1>2, <1>3, <4>1, <5>2
          <6> QED
            BY <1>11, <2>1, <2>8, <6>1
        <5> QED
          BY <5>1, <5>2
      <4>3. PICK q \in 1..N : found[q] = k
        BY <1>9, <4>2
      <4>4. q < c
        BY <1>3, <3>2, <4>1, <4>3
      <4>5. Has(mark)
        BY <1>2, <4>4
      <4>6. PICK b \in 1..N : b = c - 1
        BY <1>2, <1>3, <4>5
      <4>7. found[b] = mark /\ (q = b \/ q < b)
        BY <1>2, <1>3, <4>4, <4>5, <4>6
      <4>8. q # b
        BY <1>3, <3>0, <4>3, <4>7
      <4>9. k < mark \/ k > Latest
        BY <1>10, <4>3, <4>7, <4>8
      <4> QED
        BY <1>3, <2>3, <3>0, <4>9
    <3>4. \A i \in 1..L : found'[i] > k
      <4> SUFFICES ASSUME NEW i \in 1..L  PROVE found'[i] > k
        OBVIOUS
      <4>1. PICK p \in 1..N : p = N + 1 - i
        BY <2>2
      <4>2. found'[i] = found[p]
        BY <1>1, <4>1
      <4>3. CASE Has(k)
        <5>1. PICK q \in 1..N : found[q] = k
          BY <1>9, <4>3
        <5>2. q < p
          BY <1>3, <3>2, <4>1, <5>1
        <5>3. k < found[p] \/ k > Latest
          BY <1>10, <5>1, <5>2
        <5> QED
          BY <1>3, <2>3, <3>0, <4>2, <5>3
      <4>4. CASE ~Has(k)
        BY <3>1, <4>2, <4>4
      <4> QED
        BY <4>3, <4>4
    <3>5. {i \in 1..L : found'[i] > k} = 1..L
      BY <3>4
    <3>6. Cardinality(1..L) = L
      BY <1>3, FS_Interval
    <3> QED
      BY <3>3, <3>5, <3>6
  <2>10. L <= limit' /\ Len(found') = L
    BY <1>1, <1>7 DEF L
  <2>11. \A k \in (mark + 1)..found'[1] \ wordless :
            \/ Contains(found', k)
            \/ Cardinality({i \in 1..L : found'[i] > k}) = limit
    BY <2>1, <2>8
  <2> QED
    BY <1>7, <2>5, <2>7, <2>10, <2>11 DEF NoGapBeforeCheckpoint
<1>6. found' = <<>> => NoGapBeforeCheckpoint'
  BY DEF NoGapBeforeCheckpoint
<1> QED
  BY <1>0, <1>4, <1>5, <1>6 DEF HistoryInv, Spread

LEMMA HistoryStep ==
    ASSUME EveryScrollGains, HistoryInv, [HistoryNext]_historyVars
    PROVE  HistoryInv'
<1>1. CASE UNCHANGED historyVars
  BY <1>1
  DEF historyVars, HistoryInv, HistoryTyped, ReadingInv, Merged, Closed,
      PaneRead, Overlaps, Gains, OneWordless, Ends, Latest, Has, Spread,
      AtBottom, NoGapBeforeCheckpoint
<1> QED
  BY <1>1, RendersNothing, ReadsFirst, Scrolls, ReadsNext, Looks, Cuts, Comes
  DEF HistoryNext

(* However long the chat, wherever the mark and whatever arrives meanwhile: *)
(* between the checkpoint it started from and the one it leaves, the        *)
(* scraper misses no message but those older than a full limit of newer     *)
(* ones, and returns none twice.  The windows must overlap, with one        *)
(* message without words at most among those a scroll shows.                *)
THEOREM NoGapCorrect ==
    ASSUME EveryScrollGains
    PROVE  HistorySpec => []NoGapBeforeCheckpoint
<1>1. HistoryInit => HistoryInv
  BY StartsEmpty
<1>2. HistoryInv /\ [HistoryNext]_historyVars => HistoryInv'
  BY HistoryStep
<1>3. HistoryInv => NoGapBeforeCheckpoint
  BY DEF HistoryInv
<1> QED
  BY <1>1, <1>2, <1>3, PTL DEF HistorySpec
=============================================================================
