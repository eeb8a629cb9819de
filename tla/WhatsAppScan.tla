---------------------------- MODULE WhatsAppScan ----------------------------
(***************************************************************************)
(* The WhatsApp scanner: filters and their schedule (the API of            *)
(* whatsapp_scanner.py), Beat's dispatcher and the scan task               *)
(* (whatsapp_tasks.py), which pulls the new messages of the monitored      *)
(* groups, scores them and forwards the matches to one group.              *)
(*                                                                         *)
(* A group row belongs to one filter and watches one chat; removing a      *)
(* group and selecting it again makes a new row.  Message k of a chat is   *)
(* the k-th that arrived.  Time is counted in ticks.                       *)
(***************************************************************************)
EXTENDS Integers, FiniteSets, WhatsAppSessions

CONSTANTS
    Filters, Groups, Chats, Workers, Tokens, NoToken,
    FilterOf, ChatOf,   \* of a group row
    Bound,              \* session_id of a filter, or no profile
    Matching,           \* <<chat, k>>: the messages that score high enough
    MaxMsgs, Limit,     \* messages of a chat, latest_messages_limit
    Interval,           \* interval_hours, in ticks
    CursorVanishes,     \* the checkpointed message may be deleted in WhatsApp
    ResetsRace,         \* messages may be reset while a scan is under way
    SlowScans,          \* a scan may outlive the 30 minutes of its lock
    ScanOps, MaxOps, MaxFaults

ASSUME ScanAssumption ==
    /\ FilterOf \in [Groups -> Filters] /\ ChatOf \in [Groups -> Chats]
    /\ MaxMsgs \in Nat /\ Limit \in Nat /\ Interval \in Nat \ {0}
    /\ Filters # {} /\ Profiles # {}
    /\ NoToken \notin Tokens /\ NoHolder \notin Workers

VARIABLES
    filter,     \* [status, next, remaining]; NULL is Null
    group,      \* "unused", "live" or "removed", by group row
    cursor,     \* last_message_id by group row, 0 for NULL
    rows,       \* the stored messages by group row and number
    arrived,    \* number of messages in each chat
    lease, queue, beat, scan,
    sent,       \* history: how often a message was forwarded, since a reset
    ops, scanFaults     \* user requests and faults so far

filterVars == <<filter, group, cursor, rows>>
scanVars == <<filterVars, arrived, lease, queue, beat, scan, sent, ops,
              scanFaults>>
sessionVars == <<profileLock, row, profile>>

Null == -1
Msgs == 1..MaxMsgs
Items == Groups \X Msgs

FilterState == [status: {"draft", "active", "paused", "deleted"},
                next: Null..Interval, remaining: Null..Interval]
Message == [filter: Filters, token: Tokens \cup {NoToken}, force: BOOLEAN]
ScanState ==
    [pc: {"idle", "lock", "open", "login", "groups", "score", "send", "plan",
          "close"},
     msg: Message, prof: Profiles,
     todo: SUBSET Groups,       \* groups not visited yet
     seen: [Groups -> 0..MaxMsgs],      \* their checkpoints, as loaded
     out: SUBSET Items,         \* messages loaded and not handled yet
     done: SUBSET Items,        \* forwarded = True, flushed, not committed
     last: SUBSET Items]        \* the last one sent, not even flushed

Of(f)     == {g \in Groups : FilterOf[g] = f}
LiveOf(f) == {g \in Of(f) : group[g] = "live"}
Due(f)    == filter[f].status = "active" /\ filter[f].next <= 0

NoMessage == CHOOSE m \in Message : TRUE
IdleScan == [pc |-> "idle", msg |-> NoMessage,
             prof |-> CHOOSE p \in Profiles : TRUE, todo |-> {},
             seen |-> [g \in Groups |-> 0], out |-> {}, done |-> {},
             last |-> {}]

ScanTypeOK ==
    /\ filter \in [Filters -> FilterState]
    /\ group \in [Groups -> {"unused", "live", "removed"}]
    /\ cursor \in [Groups -> 0..MaxMsgs]
    /\ rows \in [Items -> {"none", "pending", "rejected", "matched",
                           "forwarded"}]
    /\ arrived \in [Chats -> 0..MaxMsgs]
    /\ lease \in [Filters -> Tokens \cup {NoToken}]
    /\ queue \subseteq Message
    /\ beat \subseteq Filters
    /\ scan \in [Workers -> ScanState]
    /\ sent \in [Items -> Nat]
    /\ ops \in Nat /\ scanFaults \in Nat

ScanInit ==
    /\ filter = [f \in Filters |->
                   [status |-> "draft", next |-> Null, remaining |-> Null]]
    /\ group \in [Groups -> {"unused", "live"}]
    /\ \A f \in Filters, c \in Chats :
         Cardinality({g \in LiveOf(f) : ChatOf[g] = c}) <= 1
    /\ cursor = [g \in Groups |-> 0]
    /\ rows = [x \in Items |-> "none"]
    /\ arrived = [c \in Chats |-> 0]
    /\ lease = [f \in Filters |-> NoToken]
    /\ queue = {} /\ beat = {}
    /\ scan = [w \in Workers |-> IdleScan]
    /\ sent = [x \in Items |-> 0]
    /\ ops = 0 /\ scanFaults = 0

-----------------------------------------------------------------------------
(* Requests of the owner.  ScanUser counts them and says what they leave.  *)

ScanUser(op) ==
    /\ op \in ScanOps /\ ops < MaxOps
    /\ ops' = ops + 1
    /\ UNCHANGED <<sessionVars, arrived, beat, scan, scanFaults>>

\* A paused countdown goes on; otherwise the first scan is ten seconds away.
ActivateFilter(f) ==
    /\ filter[f].status \in {"draft", "paused"}
    /\ LiveOf(f) # {}
    /\ filter' = [filter EXCEPT ![f] =
         [status |-> "active", remaining |-> Null,
          next |-> IF @.remaining > 0 THEN @.remaining ELSE 1]]
    /\ UNCHANGED <<group, cursor, rows, lease, queue, sent>>
    /\ ScanUser("activate")

\* next_scan_at stays as it is.  The lease goes whoever owns it.
PauseFilter(f) ==
    /\ filter[f].status = "active"
    /\ filter' = [filter EXCEPT ![f].status = "paused",
         ![f].remaining = IF filter[f].next = Null THEN Interval
                          ELSE filter[f].next]
    /\ lease' \in {lease, [lease EXCEPT ![f] = NoToken]}
    /\ UNCHANGED <<group, cursor, rows, queue, sent>>
    /\ ScanUser("pause")

\* A scan that has flushed a forwarded flag holds the locks of those rows
\* until it commits: a bulk DELETE of the filter's messages waits for it.
RowsLocked(f) == \E w \in Workers : \E x \in scan[w].done : FilterOf[x[1]] = f

DropRows(f) == rows' = [x \in Items |-> IF FilterOf[x[1]] = f THEN "none"
                                        ELSE rows[x]]

DeleteFilter(f) ==
    /\ filter[f].status # "deleted"
    /\ ~RowsLocked(f)
    /\ lease' \in {lease, [lease EXCEPT ![f] = NoToken]}
    /\ DropRows(f)
    /\ group' = [g \in Groups |-> IF g \in LiveOf(f) THEN "removed"
                                  ELSE group[g]]
    /\ filter' = [filter EXCEPT ![f] =
         [status |-> "deleted", next |-> Null, remaining |-> Null]]
    /\ UNCHANGED <<cursor, queue, sent>>
    /\ ScanUser("delete")

\* Clears the stored messages and the checkpoints, in one transaction.
ResetMessages(f) ==
    /\ filter[f].status # "deleted"
    /\ ~RowsLocked(f)
    /\ ResetsRace \/ \A w \in Workers : scan[w].pc # "idle"
                                           => scan[w].msg.filter # f
    /\ DropRows(f)
    /\ cursor' = [g \in Groups |-> IF g \in LiveOf(f) THEN 0 ELSE cursor[g]]
    /\ sent' = [x \in Items |-> IF FilterOf[x[1]] = f THEN 0 ELSE sent[x]]
    /\ UNCHANGED <<filter, group, lease, queue>>
    /\ ScanUser("reset")

\* Selecting groups keeps the rows, and so the checkpoints, of the chats that
\* stay, deletes the others and adds rows for new chats.  It names the group to
\* forward to as well, so a filter with groups always has one.
SelectGroups(f, chats) ==
    /\ filter[f].status # "deleted"
    /\ chats # {}
    /\ \E fresh \in SUBSET {g \in Of(f) : group[g] = "unused"} :
         /\ \A c \in chats : Cardinality({g \in LiveOf(f) \cup fresh :
                                             ChatOf[g] = c}) = 1
         /\ \A g \in fresh : ChatOf[g] \in chats
         /\ group' = [g \in Groups |->
              CASE g \in fresh -> "live"
                [] g \in LiveOf(f) /\ ChatOf[g] \notin chats -> "removed"
                [] OTHER -> group[g]]
    /\ UNCHANGED <<filter, cursor, rows, lease, queue, sent>>
    /\ ScanUser("select")

\* A manual scan carries no lease and ignores the schedule.
TriggerScan(f) ==
    /\ filter[f].status # "deleted"
    /\ Connected # {}
    /\ LiveOf(f) # {}
    /\ queue' = queue \cup {[filter |-> f, token |-> NoToken, force |-> TRUE]}
    /\ UNCHANGED <<filterVars, lease, sent>>
    /\ ScanUser("trigger")

FilterRequest(f) ==
    \/ ActivateFilter(f) \/ PauseFilter(f) \/ DeleteFilter(f)
    \/ ResetMessages(f) \/ TriggerScan(f)
    \/ \E chats \in SUBSET Chats : SelectGroups(f, chats)

-----------------------------------------------------------------------------
(* Beat.  dispatch_due_whatsapp_scans reads the due filters, then claims a *)
(* lease and sends one message for each.                                   *)

BeatFrame == UNCHANGED <<sessionVars, filterVars, arrived, scan, sent, ops,
                         scanFaults>>

BeatFindsScans ==
    /\ beat = {}
    /\ beat' = {f \in Filters : Due(f)}
    /\ beat' # {}
    /\ UNCHANGED <<lease, queue>> /\ BeatFrame

\* A claim makes a token that no message carries.
FreshTokens == Tokens \ ({m.token : m \in queue} \cup
                         {scan[w].msg.token : w \in
                            {v \in Workers : scan[v].pc # "idle"}})

BeatSendsScan(f) ==
    /\ f \in beat
    /\ beat' = beat \ {f}
    /\ lease[f] = NoToken
    /\ \E t \in FreshTokens :
         /\ lease' = [lease EXCEPT ![f] = t]
         /\ queue' = queue \cup {[filter |-> f, token |-> t, force |-> FALSE]}
    /\ BeatFrame

BeatSkipsScan(f) ==
    /\ f \in beat
    /\ lease[f] # NoToken
    /\ beat' = beat \ {f}
    /\ UNCHANGED <<lease, queue>> /\ BeatFrame

\* The broker refuses the message: the lease is given back and the exception
\* ends the tick, so the other due filters wait for the next one.
BeatSendFails(f) ==
    /\ f \in beat
    /\ lease[f] = NoToken
    /\ beat' = {}
    /\ UNCHANGED <<lease, queue>> /\ BeatFrame

-----------------------------------------------------------------------------
(* The scan task.                                                          *)

Stored(w) == {x \in Items : /\ FilterOf[x[1]] = scan[w].msg.filter
                            /\ rows[x] # "none"}

\* Every way out of the task gives back the lease, if it is still its own.
EndScan(w) ==
    LET m == scan[w].msg IN
    /\ scan' = [scan EXCEPT ![w] = IdleScan]
    /\ lease' = IF m.token # NoToken /\ lease[m.filter] = m.token
                THEN [lease EXCEPT ![m.filter] = NoToken] ELSE lease

ScanFrame == UNCHANGED <<arrived, queue, beat, ops, scanFaults>>

Startable(m) ==
    /\ filter[m.filter].status = "active"
    /\ m.force \/ filter[m.filter].next <= 0
    /\ SessionFor(Bound[m.filter]) # {}
    /\ LiveOf(m.filter) # {}

StartScan(w, m) ==
    /\ scan[w].pc = "idle" /\ m \in queue
    /\ queue' = queue \ {m}
    /\ Startable(m)
    /\ \E p \in SessionFor(Bound[m.filter]) :
         scan' = [scan EXCEPT ![w] =
                    [IdleScan EXCEPT !.pc = "lock", !.msg = m, !.prof = p,
                                     !.todo = LiveOf(m.filter),
                                     !.seen = cursor]]
    /\ UNCHANGED <<sessionVars, filterVars, arrived, lease, beat, sent, ops,
                   scanFaults>>

SkipScan(w, m) ==
    /\ scan[w].pc = "idle" /\ m \in queue
    /\ queue' = queue \ {m}
    /\ ~Startable(m)
    /\ lease' = IF m.token # NoToken /\ lease[m.filter] = m.token
                THEN [lease EXCEPT ![m.filter] = NoToken] ELSE lease
    /\ UNCHANGED <<sessionVars, filterVars, arrived, beat, scan, sent, ops,
                   scanFaults>>

Goto(w, pc) == scan' = [scan EXCEPT ![w].pc = pc]

LockProfile(w) ==
    /\ scan[w].pc = "lock"
    /\ AcquireLock(scan[w].prof, w)
    /\ Goto(w, "open")
    /\ UNCHANGED <<row, profile, filterVars, lease, sent>> /\ ScanFrame

\* Another browser keeps the profile for five seconds: Beat comes back later.
ProfileBusy(w) ==
    /\ scan[w].pc = "lock"
    /\ ~LockFree(scan[w].prof)
    /\ EndScan(w)
    /\ UNCHANGED <<sessionVars, filterVars, sent>> /\ ScanFrame

\* A missing profile directory is never opened: the row says so at once.
MissingProfile(w) ==
    /\ scan[w].pc = "open"
    /\ profile[scan[w].prof] = "missing"
    /\ ReleaseLock(scan[w].prof, w)
    /\ row' = IF row[scan[w].prof] = "connected"
              THEN [row EXCEPT ![scan[w].prof] = "disconnected"] ELSE row
    /\ EndScan(w)
    /\ UNCHANGED <<profile, filterVars, sent>> /\ ScanFrame

LaunchFails(w) ==
    /\ scan[w].pc = "open"
    /\ profile[scan[w].prof] # "missing"
    /\ ReleaseLock(scan[w].prof, w)
    /\ EndScan(w)
    /\ UNCHANGED <<row, profile, filterVars, sent>> /\ ScanFrame

Launch(w) ==
    /\ scan[w].pc = "open"
    /\ profile[scan[w].prof] # "missing"
    /\ Goto(w, "login")
    /\ UNCHANGED <<sessionVars, filterVars, lease, sent>> /\ ScanFrame

LoggedIn(w) ==
    /\ scan[w].pc = "login"
    /\ profile[scan[w].prof] = "linked"
    /\ Goto(w, "groups")
    /\ UNCHANGED <<sessionVars, filterVars, lease, sent>> /\ ScanFrame

\* Only a QR screen proves that the phone has dropped the device; a page that
\* is slow to load is no reason to disconnect.
QrShown(w) ==
    /\ scan[w].pc = "login"
    /\ profile[scan[w].prof] # "linked"
    /\ SetRow(scan[w].prof, "disconnected")
    /\ Goto(w, "close")
    /\ UNCHANGED <<profileLock, profile, filterVars, lease, sent>> /\ ScanFrame

SlowToLoad(w) ==
    /\ scan[w].pc = "login"
    /\ Goto(w, "close")
    /\ UNCHANGED <<sessionVars, filterVars, lease, sent>> /\ ScanFrame

\* What the page yields: the newest Limit messages after the checkpoint, or
\* the newest Limit of all when the checkpoint is not on the page.
MutNewer(g, c) == {k \in 1..arrived[ChatOf[g]] :
                    k > c + 1 /\ k > arrived[ChatOf[g]] - Limit}
Newer(g, c) == {k \in 1..arrived[ChatOf[g]] :
                    k > c /\ k > arrived[ChatOf[g]] - Limit}
Scraped(w, g) ==
    {Newer(g, scan[w].seen[g])} \cup
        (IF CursorVanishes THEN {Newer(g, 0)} ELSE {})

MutCheckpoint(g) == arrived[ChatOf[g]] + 1
Checkpoint(g) == arrived[ChatOf[g]]

\* The new checkpoint and the messages not stored yet go in together.  The
\* group row may be gone by now: its messages are stored all the same.
ScrapeGroup(w, g) ==
    /\ scan[w].pc = "groups" /\ g \in scan[w].todo
    /\ filter[FilterOf[g]].status # "deleted"
    /\ scan' = [scan EXCEPT ![w].todo = @ \ {g}]
    /\ \E new \in Scraped(w, g) :
         /\ cursor' = IF new # {} /\ group[g] = "live"
                      THEN [cursor EXCEPT ![g] = Checkpoint(g)]
                      ELSE cursor
         /\ rows' = [x \in Items |-> IF x[1] = g /\ x[2] \in new
                                        /\ rows[x] = "none"
                                     THEN "pending" ELSE rows[x]]
    /\ UNCHANGED <<sessionVars, filter, group, lease, sent>> /\ ScanFrame

GroupNotOpened(w, g) ==
    /\ scan[w].pc = "groups" /\ g \in scan[w].todo
    /\ scan' = [scan EXCEPT ![w].todo = @ \ {g}]
    /\ UNCHANGED <<sessionVars, filterVars, lease, sent>> /\ ScanFrame

LoadPending(w) ==
    /\ scan[w].pc = "groups" /\ scan[w].todo = {}
    /\ scan' = [scan EXCEPT ![w].pc = "score",
                  ![w].out = {x \in Stored(w) : rows[x] = "pending"}]
    /\ UNCHANGED <<sessionVars, filterVars, lease, sent>> /\ ScanFrame

Matches(x) == <<ChatOf[x[1]], x[2]>> \in Matching

\* Everything that matches and is not marked as forwarded is loaded, also
\* from earlier scans.
MutToForward(w, scored) == {x \in scan[w].out : scored[x] = "matched"}
ToForward(w, scored) == {x \in Stored(w) : scored[x] = "matched"}

\* OCR and scoring, committed at once.
Score(w) ==
    LET scored == [x \in Items |->
                     IF x \notin scan[w].out THEN rows[x]
                     ELSE IF Matches(x) THEN "matched" ELSE "rejected"]
    IN /\ scan[w].pc = "score"
       /\ \A x \in scan[w].out : rows[x] # "none"
       /\ rows' = scored
       /\ scan' = [scan EXCEPT ![w].pc = "send",
                     ![w].out = ToForward(w, scored)]
       /\ UNCHANGED <<sessionVars, filter, group, cursor, lease, sent>>
       /\ ScanFrame

\* Rows that were deleted meanwhile, or messages of a deleted filter, make the
\* flush raise: the transaction is rolled back and the task goes to its
\* finally clause.
FlushRaises(w) ==
    /\ \/ /\ scan[w].pc = "groups"
          /\ filter[scan[w].msg.filter].status = "deleted"
          /\ \E g \in scan[w].todo : \E new \in Scraped(w, g) : new # {}
       \/ scan[w].pc = "score" /\ \E x \in scan[w].out : rows[x] = "none"
       \/ scan[w].pc = "send" /\ \E x \in scan[w].last : rows[x] = "none"
    /\ scan' = [scan EXCEPT ![w].pc = "close", ![w].out = {},
                            ![w].done = {}, ![w].last = {}]
    /\ UNCHANGED <<sessionVars, filterVars, lease, sent>> /\ ScanFrame

\* forward_message_to_group opens the target, pastes and clicks.  It says sent
\* without looking for the message, and a click may raise after it was made.
SendResults == [said : BOOLEAN, went : BOOLEAN]
SentWell == [said |-> TRUE, went |-> TRUE]
Misreports(s) == s.said # s.went

SentNow(x, s) == IF s.said THEN {x} ELSE {}

\* Loading the group of the next message flushes the flag of the one before.
Forward(w, x, s) ==
    /\ scan[w].pc = "send" /\ x \in scan[w].out
    /\ \A y \in scan[w].last : rows[y] # "none"
    /\ scan' = [scan EXCEPT ![w].out = @ \ {x},
                  ![w].done = @ \cup scan[w].last,
                  ![w].last = SentNow(x, s)]
    /\ sent' = IF s.went THEN [sent EXCEPT ![x] = @ + 1] ELSE sent
    /\ Misreports(s) => scanFaults < MaxFaults
    /\ scanFaults' = IF Misreports(s) THEN scanFaults + 1 ELSE scanFaults
    /\ UNCHANGED <<sessionVars, filterVars, lease, arrived, queue, beat, ops>>

MutMarked(w) == scan[w].done
Marked(w) == scan[w].done \cup scan[w].last

\* One commit for all the messages of the scan.
SaveForwarded(w) ==
    /\ scan[w].pc = "send" /\ scan[w].out = {}
    /\ \A y \in scan[w].last : rows[y] # "none"
    /\ rows' = [x \in Items |-> IF x \in Marked(w) THEN "forwarded" ELSE rows[x]]
    /\ scan' = [scan EXCEPT ![w].pc = "plan", ![w].done = {}, ![w].last = {}]
    /\ UNCHANGED <<sessionVars, filter, group, cursor, lease, sent>>
    /\ ScanFrame

MutMayPlan(f) == TRUE
MayPlan(f) == filter[f].status = "active"

\* The filter is read again: only an active one gets its next scan.
PlanNextScan(w) ==
    LET f == scan[w].msg.filter IN
    /\ scan[w].pc = "plan"
    /\ filter' = IF MayPlan(f)
                 THEN [filter EXCEPT ![f].next = Interval,
                                     ![f].remaining = Null]
                 ELSE filter
    /\ Goto(w, "close")
    /\ UNCHANGED <<sessionVars, group, cursor, rows, lease, sent>>
    /\ ScanFrame

CloseScan(w) ==
    /\ scan[w].pc = "close"
    /\ ReleaseLock(scan[w].prof, w)
    /\ EndScan(w)
    /\ UNCHANGED <<row, profile, filterVars, sent>> /\ ScanFrame

-----------------------------------------------------------------------------
(* The phone, failures and time.                                           *)

MessageArrives(c) ==
    /\ arrived[c] < MaxMsgs
    /\ arrived' = [arrived EXCEPT ![c] = @ + 1]
    /\ UNCHANGED <<sessionVars, filterVars, lease, queue, beat, scan, sent,
                   ops, scanFaults>>

\* The phone drops the device, or a deploy loses the profiles' volume.
ProfileLost(p, st) ==
    /\ profile[p] = "linked" /\ scanFaults < MaxFaults
    /\ scanFaults' = scanFaults + 1
    /\ profile' = [profile EXCEPT ![p] = st]
    /\ UNCHANGED <<profileLock, row, filterVars, arrived, lease, queue, beat,
                   scan, sent, ops>>

\* Locks, lease and uncommitted flags: everything but the message is lost.
ScanCrash(w) ==
    /\ scan[w].pc # "idle" /\ scanFaults < MaxFaults
    /\ scanFaults' = scanFaults + 1
    /\ scan' = [scan EXCEPT ![w] = IdleScan]
    /\ queue' = queue \cup {scan[w].msg}
    /\ UNCHANGED <<sessionVars, filterVars, arrived, lease, beat, sent, ops>>

Scanning(w) == scan[w].pc \in {"login", "groups", "score", "send", "plan",
                               "close"}
Holding(w)  == Scanning(w) \/ scan[w].pc = "open"

TimeFrame == UNCHANGED <<row, profile, group, cursor, rows, arrived, queue,
                         beat, scan, sent, ops, scanFaults>>

Tick ==
    /\ \E f \in Filters : filter[f].next > 0
    /\ filter' = [f \in Filters |->
         [filter[f] EXCEPT !.next = IF @ > 0 THEN @ - 1 ELSE @]]
    /\ UNCHANGED <<profileLock, lease>> /\ TimeFrame

ScanLeaseExpires(f) ==
    /\ lease[f] # NoToken
    /\ lease' = [lease EXCEPT ![f] = NoToken]
    /\ UNCHANGED <<profileLock, filter>> /\ TimeFrame

ScanLockExpires(p) ==
    /\ profileLock[p] \in Workers
    /\ SlowScans \/ ~Holding(profileLock[p])
    /\ LockExpires(p)
    /\ UNCHANGED <<lease, filter>> /\ TimeFrame

-----------------------------------------------------------------------------
BeatWorks == \E f \in Filters :
                BeatSendsScan(f) \/ BeatSkipsScan(f) \/ BeatSendFails(f)

TakeScan(w) == \E m \in queue : StartScan(w, m) \/ SkipScan(w, m)

ScanStep(w) ==
    \/ LockProfile(w) \/ ProfileBusy(w)
    \/ MissingProfile(w) \/ LaunchFails(w) \/ Launch(w)
    \/ LoggedIn(w) \/ QrShown(w) \/ SlowToLoad(w)
    \/ \E g \in Groups : ScrapeGroup(w, g) \/ GroupNotOpened(w, g)
    \/ LoadPending(w) \/ Score(w) \/ FlushRaises(w)
    \/ \E x \in Items, s \in SendResults : Forward(w, x, s)
    \/ SaveForwarded(w) \/ PlanNextScan(w) \/ CloseScan(w)

ScanNext ==
    \/ \E f \in Filters : FilterRequest(f)
    \/ BeatFindsScans \/ BeatWorks
    \/ \E w \in Workers : TakeScan(w) \/ ScanStep(w) \/ ScanCrash(w)
    \/ \E c \in Chats : MessageArrives(c)
    \/ Tick
    \/ \E f \in Filters : ScanLeaseExpires(f)
    \/ \E p \in Profiles : ScanLockExpires(p)
    \/ \E p \in Profiles, st \in {"blank", "missing"} : ProfileLost(p, st)

\* The scanner on its own, with devices that were connected before.
ScannerInit ==
    /\ LocksInit /\ ScanInit
    /\ row = [p \in Profiles |-> "connected"]
    /\ profile = [p \in Profiles |-> "linked"]

ScannerVars == <<sessionVars, scanVars>>

ScannerSpec == ScannerInit /\ [][ScanNext]_ScannerVars

(***************************************************************************)
(* Fairness.  Beat ticks every minute and a tick runs to its end; an idle  *)
(* worker comes to each message; a scan goes on until it ends or its       *)
(* worker dies; timers run out.  What the page can do, open a chat or send *)
(* a message, it does when it is tried again and again.  Users, the phone  *)
(* and crashes owe nothing.                                                *)
(***************************************************************************)
ScannerFairness ==
    /\ WF_ScannerVars(BeatFindsScans)
    /\ WF_ScannerVars(BeatWorks)
    /\ \A f \in Filters : SF_ScannerVars(BeatSendsScan(f))
    /\ SF_ScannerVars(\E w \in Workers : TakeScan(w))
    /\ \A w \in Workers :
         /\ WF_ScannerVars(ScanStep(w))
         /\ SF_ScannerVars(LockProfile(w))
         /\ SF_ScannerVars(Launch(w))
         /\ SF_ScannerVars(LoggedIn(w))
         /\ \A g \in Groups : SF_ScannerVars(ScrapeGroup(w, g))
         /\ \A x \in Items : SF_ScannerVars(Forward(w, x, SentWell))
    /\ WF_ScannerVars(Tick)
    /\ \A f \in Filters : WF_ScannerVars(ScanLeaseExpires(f))
    /\ \A p \in Profiles : WF_ScannerVars(ScanLockExpires(p))

FairScannerSpec == ScannerSpec /\ ScannerFairness

-----------------------------------------------------------------------------
(* Properties *)

\* Two scans never have one profile open: filters share a device, manual
\* scans overlap dispatched ones, and crashed scans come back.
OneScanPerProfile ==
    \A v, w \in Workers :
        Scanning(v) /\ Scanning(w) /\ scan[v].prof = scan[w].prof => v = w

\* A stored message is forwarded once, and once more at most for every fault:
\* the flags of a scan are committed only after its last message, so a worker
\* that dies repeats them, and a click that raises too late repeats its own.
ForwardedOncePerFault ==
    \A x \in Items : sent[x] <= 1 + scanFaults

\* The checkpoint never passes a message that is not stored, unless more than
\* latest_messages_limit arrived between two scans: it is written in the
\* transaction that stores the messages.
CheckpointCovers ==
    \A g \in Groups : \A k \in 1..cursor[g] :
        group[g] = "live" /\ MaxMsgs <= Limit => rows[<<g, k>>] # "none"

\* A scan that ends after its filter was paused leaves the paused countdown
\* alone: only the owner ends a pause.
PauseIsKept ==
    [][\A f \in Filters :
         filter[f].status = "paused" /\ filter'[f] # filter[f]
            => \/ filter'[f] = [filter[f] EXCEPT !.next = @ - 1]
               \/ ops' > ops]_ScannerVars

\* A match is forwarded in the end, by a later scan if need be, while its
\* filter runs on a device that is connected.
MatchIsForwarded ==
    \A x \in Items :
        rows[x] = "matched"
            ~> \/ rows[x] # "matched"
               \/ filter[FilterOf[x[1]]].status # "active"
               \/ \E p \in Profiles : profile[p] # "linked"

\* A message that arrives in a watched chat is stored in the end.
ArrivedIsStored ==
    \A x \in Items :
        x[2] <= arrived[ChatOf[x[1]]] /\ group[x[1]] = "live"
            ~> \/ rows[x] # "none" \/ group[x[1]] # "live"
               \/ filter[FilterOf[x[1]]].status # "active"
               \/ \E p \in Profiles : profile[p] # "linked"
=============================================================================
