--------------------------- MODULE InteractiveLogins ---------------------------
(***************************************************************************)
(* Connecting a LinkedIn account (api/v1/linkedin.py): a request opens a   *)
(* browser on the account's durable profile and signs in                   *)
(* (automation/session.py).  When LinkedIn asks for a code, the open       *)
(* browser and its profile lock move to a pending session in the memory of *)
(* the API process (automation/session_manager.py), where a later request  *)
(* types the code or the periodic clean-up closes it.                      *)
(*                                                                         *)
(* A profile is one incarnation of an account row: its directory is named  *)
(* by the row's uuid.  An operator named Mut... is a wrong variant.        *)
(***************************************************************************)
EXTENDS Integers, FiniteSets, ProfileLocks

CONSTANTS
    Emails,
    Logins, Sessions, Others,  \* requests, pending sessions, other browsers
    NoAccount, NoSession,
    EditsRace,     \* rows are deleted, renamed and suspended under a login
    LoginOps, MaxLoginOps, MaxApiRestarts

\* Each of them is a token of its own in Redis.
ASSUME LoginAssumption ==
    /\ Logins \cap Sessions = {} /\ Logins \cap Others = {}
    /\ Sessions \cap Others = {}
    /\ NoHolder \notin Logins \cup Sessions \cup Others
    /\ NoAccount \notin Profiles /\ NoSession \notin Sessions

VARIABLES
    acct,       \* [status, mail] by incarnation
    dir,        \* what its profile directory holds
    login,      \* requests: [pc, acc, mail, sid]
    pending,    \* SessionManager._sessions and what it lost: [st, acc, mail, old]
    other,      \* profile a campaign session or live chat has open
    stray,      \* profiles with a browser nobody refers to any more
    loginOps, apiRestarts

loginVars == <<profileLock, acct, dir, login, pending, other, stray, loginOps,
               apiRestarts>>

AccountStatus == {"absent", "pending", "active", "failed", "suspended",
                  "deleted"}
IdleLogin == [pc |-> "idle", acc |-> NoAccount, mail |-> NoAccount,
              sid |-> NoSession]
NoPending == [st |-> "none", acc |-> NoAccount, mail |-> NoAccount,
              old |-> FALSE]

LoginTypeOK ==
    /\ acct \in [Profiles -> [status: AccountStatus,
                              mail: Emails \cup {NoAccount}]]
    /\ dir \in [Profiles -> {"gone", "blank", "signed", "lapsed"}]
    /\ login \in [Logins ->
         [pc: {"idle", "insert", "connect", "signin", "check", "probe",
               "again", "mark", "code", "confirm", "tidy"},
          acc: Profiles \cup {NoAccount}, mail: Emails \cup {NoAccount},
          sid: Sessions \cup {NoSession}]]
    /\ pending \in [Sessions -> [st: {"none", "stored", "closing", "dropped"},
                                 acc: Profiles \cup {NoAccount},
                                 mail: Emails \cup {NoAccount}, old: BOOLEAN]]
    /\ other \in [Others -> Profiles \cup {NoAccount}]
    /\ stray \subseteq Profiles

LoginsInit ==
    /\ LocksInit
    /\ acct = [a \in Profiles |-> [status |-> "absent", mail |-> NoAccount]]
    /\ dir = [a \in Profiles |-> "gone"]
    /\ login = [r \in Logins |-> IdleLogin]
    /\ pending = [s \in Sessions |-> NoPending]
    /\ other = [o \in Others |-> NoAccount]
    /\ stray = {}
    /\ loginOps = 0 /\ apiRestarts = 0

-----------------------------------------------------------------------------
(* What the page shows after the sign-in, and what the code makes of it.   *)

Markers == {"error", "success", "verify", "checkpoint", "submit", "login"}
Snapshots == [url: {M \in SUBSET Markers : "submit" \in M => "login" \in M},
              surface: BOOLEAN, captcha: BOOLEAN, ui: BOOLEAN,
              banner: {"none", "rejected", "throttled"}]

SuccessUrl(s) == "success" \in s.url /\ "login" \notin s.url

MutDecide(s) ==
    IF "error" \in s.url THEN "network_error"
    ELSE IF s.surface \/ SuccessUrl(s) THEN "valid"
    ELSE IF s.banner # "none" THEN "expired"
    ELSE "verification"
Decide(s) ==
    IF "error" \in s.url THEN "network_error"
    ELSE IF s.surface \/ SuccessUrl(s) THEN "valid"
    ELSE IF s.captcha THEN "captcha"
    ELSE IF s.ui \/ s.url \cap {"verify", "checkpoint"} # {}
         THEN "verification"
    ELSE IF s.banner = "throttled" THEN "throttled"
    ELSE IF s.banner = "rejected" THEN "expired"
    ELSE IF "login" \in s.url THEN "timeout"
    ELSE "unknown"

\* Waiting longer cannot change what the page means.
Terminal(s) ==
    \/ s.url \cap {"error", "verify", "checkpoint"} # {}
    \/ s.surface \/ SuccessUrl(s) \/ s.captcha \/ s.ui \/ s.banner # "none"
    \/ "login" \notin s.url

Outcomes == {Decide(s) : s \in Snapshots}

-----------------------------------------------------------------------------
Rows        == {a \in Profiles : acct[a].status \notin {"absent", "deleted"}}
WithMail(e) == {a \in Rows : acct[a].mail = e}

\* A request or a pending session has a browser open on the profile.
LoginOpen(r, a)   == /\ login[r].acc = a
                     /\ login[r].pc \in {"signin", "probe", "again"}
PendingOpen(s, a) == pending[s].st # "none" /\ pending[s].acc = a
UnderWay(a) == \/ \E r \in Logins : login[r].acc = a
               \/ \E s \in Sessions : PendingOpen(s, a)

LoginUser(op) ==
    /\ op \in LoginOps /\ loginOps < MaxLoginOps
    /\ loginOps' = loginOps + 1
    /\ UNCHANGED <<pending, other, stray, apiRestarts>>
LoginFrame == UNCHANGED <<other, loginOps, apiRestarts>>

Step(r, pc) == login' = [login EXCEPT ![r].pc = pc]
Leaves(r)   == login' = [login EXCEPT ![r] = IdleLogin]
SetStatus(a, st) == acct' = [acct EXCEPT ![a].status = st]

(* Adding an account. *)

\* The e-mail is looked up first: a 409 needs no browser.
AddAccount(r, e) ==
    /\ login[r].pc = "idle" /\ WithMail(e) = {}
    /\ login' = [login EXCEPT ![r].pc = "insert", ![r].mail = e]
    /\ UNCHANGED <<profileLock, acct, dir>> /\ LoginUser("add")

\* The row is committed before the login; the unique index has the last word.
AddRow(r, a) ==
    /\ login[r].pc = "insert" /\ acct[a].status = "absent"
    /\ WithMail(login[r].mail) = {}
    /\ acct' = [acct EXCEPT ![a] = [status |-> "pending",
                                    mail |-> login[r].mail]]
    /\ dir' = [dir EXCEPT ![a] = "blank"]
    /\ login' = [login EXCEPT ![r].pc = "connect", ![r].acc = a]
    /\ UNCHANGED <<profileLock, pending, stray>> /\ LoginFrame

AddRowTaken(r) ==
    /\ login[r].pc = "insert" /\ WithMail(login[r].mail) # {}
    /\ Leaves(r)
    /\ UNCHANGED <<profileLock, acct, dir, pending, stray>> /\ LoginFrame

AddOpens(r) ==
    /\ login[r].pc = "connect"
    /\ AcquireLock(login[r].acc, r)
    /\ Step(r, "signin")
    /\ UNCHANGED <<acct, dir, pending, stray>> /\ LoginFrame

\* The row and its directory go, the lock is given back.
Withdraw(r) ==
    LET a == login[r].acc IN
    /\ SetStatus(a, "deleted")
    /\ dir' = [dir EXCEPT ![a] = "gone"]
    /\ ReleaseLock(a, r)
    /\ Leaves(r)

\* A refused login, a busy profile or an exception: linkedin_login has closed
\* its browser by then.
AddFails(r) ==
    /\ \/ login[r].pc = "connect"
       \/ login[r].pc = "signin" /\ Outcomes \ {"valid", "verification"} # {}
    /\ Withdraw(r)
    /\ UNCHANGED <<pending, stray>> /\ LoginFrame

\* The commit after the login raises, or the row is gone: the browser that
\* was handed over is not closed on this path.
AddCommitFails(r) ==
    /\ login[r].pc = "signin"
    /\ stray' = stray \cup {login[r].acc}
    /\ Withdraw(r)
    /\ UNCHANGED pending /\ LoginFrame

\* Signed in: the browser is closed and the account active.
AddSucceeds(r) ==
    LET a == login[r].acc IN
    /\ login[r].pc = "signin" /\ "valid" \in Outcomes
    /\ acct[a].status # "deleted"
    /\ dir' = [dir EXCEPT ![a] = "signed"]
    /\ SetStatus(a, "active")
    /\ ReleaseLock(a, r)
    /\ Leaves(r)
    /\ UNCHANGED <<pending, stray>> /\ LoginFrame

\* The open browser and the lock become the pending session's.
MutHandOver(r, s) ==
    /\ pending' = [pending EXCEPT ![s] =
         [st |-> "stored", acc |-> login[r].acc, mail |-> login[r].mail,
          old |-> FALSE]]
    /\ ReleaseLock(login[r].acc, r)
HandOver(r, s) ==
    LET a == login[r].acc IN
    /\ pending' = [pending EXCEPT ![s] =
         [st |-> "stored", acc |-> a, mail |-> login[r].mail, old |-> FALSE]]
    /\ profileLock' = IF LockHeldBy(a, r)
                      THEN [profileLock EXCEPT ![a] = s] ELSE profileLock

AddNeedsCode(r, s) ==
    /\ login[r].pc = "signin" /\ "verification" \in Outcomes
    /\ acct[login[r].acc].status # "deleted"
    /\ pending[s].st = "none"
    /\ HandOver(r, s)
    /\ Leaves(r)
    /\ UNCHANGED <<acct, dir, stray>> /\ LoginFrame

-----------------------------------------------------------------------------
(* Verifying the session of an account.  One that is pending already is    *)
(* answered at once, whether or not a pending session still exists.        *)

VerifyAccount(r, a) ==
    /\ login[r].pc = "idle" /\ a \in Rows /\ acct[a].status # "pending"
    /\ login' = [login EXCEPT ![r].pc = "check", ![r].acc = a,
                              ![r].mail = acct[a].mail]
    /\ UNCHANGED <<profileLock, acct, dir>> /\ LoginUser("verify")

VerifyBusy(r) ==
    /\ login[r].pc = "check" /\ ~LockFree(login[r].acc)
    /\ Leaves(r)
    /\ UNCHANGED <<profileLock, acct, dir, pending, stray>> /\ LoginFrame

VerifyOpens(r) ==
    /\ login[r].pc = "check"
    /\ AcquireLock(login[r].acc, r)
    /\ Step(r, "probe")
    /\ UNCHANGED <<acct, dir, pending, stray>> /\ LoginFrame

\* A valid session leaves the row's status as it is.  Every exception ends
\* here as well, with the browser closed.
VerifyEnds(r) ==
    /\ login[r].pc \in {"probe", "again"}
    /\ ReleaseLock(login[r].acc, r)
    /\ Leaves(r)
    /\ UNCHANGED <<acct, dir, pending, stray>> /\ LoginFrame

\* An expired session: the browser is closed and opened again for a login
\* with the stored password, under the same lock.
VerifyLogsIn(r) ==
    /\ login[r].pc = "probe"
    /\ Step(r, "again")
    /\ UNCHANGED <<profileLock, acct, dir, pending, stray>> /\ LoginFrame

VerifyRefreshes(r) ==
    LET a == login[r].acc IN
    /\ login[r].pc = "again" /\ "valid" \in Outcomes
    /\ dir' = [dir EXCEPT ![a] = "signed"]
    /\ acct' = IF a \in Rows THEN [acct EXCEPT ![a].status = "active"] ELSE acct
    /\ ReleaseLock(a, r)
    /\ Leaves(r)
    /\ UNCHANGED <<pending, stray>> /\ LoginFrame

VerifyRefused(r) ==
    LET a == login[r].acc IN
    /\ login[r].pc = "again" /\ Outcomes \ {"valid", "verification"} # {}
    /\ acct' = IF a \in Rows THEN [acct EXCEPT ![a].status = "failed"] ELSE acct
    /\ ReleaseLock(a, r)
    /\ Leaves(r)
    /\ UNCHANGED <<dir, pending, stray>> /\ LoginFrame

\* The commit after the second login raises: its browser is in no variable.
VerifyCommitFails(r) ==
    /\ login[r].pc = "again"
    /\ stray' = stray \cup {login[r].acc}
    /\ ReleaseLock(login[r].acc, r)
    /\ Leaves(r)
    /\ UNCHANGED <<acct, dir, pending>> /\ LoginFrame

\* The session is created first, the row marked in a commit of its own.
VerifyNeedsCode(r, s) ==
    /\ login[r].pc \in {"probe", "again"}
    /\ pending[s].st = "none"
    /\ HandOver(r, s)
    /\ Step(r, "mark")
    /\ UNCHANGED <<acct, dir, stray>> /\ LoginFrame

VerifyMarks(r) ==
    LET a == login[r].acc IN
    /\ login[r].pc = "mark"
    /\ acct' = IF a \in Rows THEN [acct EXCEPT ![a].status = "pending"] ELSE acct
    /\ Leaves(r)
    /\ UNCHANGED <<profileLock, dir, pending, stray>> /\ LoginFrame

-----------------------------------------------------------------------------
(* The verification code.                                                  *)

SubmitCode(r, s) ==
    /\ login[r].pc = "idle" /\ pending[s].st = "stored" /\ ~pending[s].old
    /\ login' = [login EXCEPT ![r].pc = "code", ![r].sid = s]
    /\ UNCHANGED <<profileLock, acct, dir>> /\ LoginUser("code")

\* get_session removes an expired session from the table; its browser and
\* lock are then out of the reach of the periodic clean-up.
SubmitLate(r, s) ==
    /\ login[r].pc = "idle" /\ pending[s].st = "stored" /\ pending[s].old
    /\ pending' = [pending EXCEPT ![s].st = "dropped"]
    /\ UNCHANGED <<profileLock, acct, dir, login, other, stray, loginOps,
                   apiRestarts>>

PageOf(r) == pending[login[r].sid]

\* LinkedIn takes the code: the profile is signed in.
CodeTaken(r) ==
    /\ login[r].pc = "code" /\ PageOf(r).st = "stored"
    /\ dir' = IF dir[PageOf(r).acc] = "gone" THEN dir
              ELSE [dir EXCEPT ![PageOf(r).acc] = "signed"]
    /\ Step(r, "confirm")
    /\ UNCHANGED <<profileLock, acct, pending, stray>> /\ LoginFrame

\* A wrong code, or a page without the field: the session stays for a retry.
CodeRefused(r) ==
    /\ login[r].pc = "code"
    /\ Leaves(r)
    /\ UNCHANGED <<profileLock, acct, dir, pending, stray>> /\ LoginFrame

\* The clean-up closed the page meanwhile, or the page raises.
CodeRaises(r) ==
    /\ login[r].pc \in {"code", "confirm"}
    /\ Step(r, "tidy")
    /\ UNCHANGED <<profileLock, acct, dir, pending, stray>> /\ LoginFrame

\* The row is found by the e-mail the session was made with.
MutConfirms(r) == Emails \cap {acct[a].mail : a \in Rows}
Confirms(r) == {PageOf(r).mail}
CodeConfirmed(r, a) ==
    /\ login[r].pc = "confirm"
    /\ a \in Rows /\ acct[a].mail \in Confirms(r)
    /\ SetStatus(a, "active")
    /\ Step(r, "tidy")
    /\ UNCHANGED <<profileLock, dir, pending, stray>> /\ LoginFrame

CodeWithoutRow(r) ==
    /\ login[r].pc = "confirm" /\ WithMail(PageOf(r).mail) = {}
    /\ Leaves(r)
    /\ UNCHANGED <<profileLock, acct, dir, pending, stray>> /\ LoginFrame

\* cleanup_session pops the session and closes what it refers to; a second
\* caller finds nothing.
MutCleanup(s) == pending[s].st
Cleanup(s) == IF pending[s].st = "stored" THEN "closing" ELSE pending[s].st

CodeTidies(r) ==
    /\ login[r].pc = "tidy"
    /\ pending' = [pending EXCEPT ![login[r].sid].st = Cleanup(login[r].sid)]
    /\ Leaves(r)
    /\ UNCHANGED <<profileLock, acct, dir, stray>> /\ LoginFrame

PeriodicCleanup(s) ==
    /\ pending[s].st = "stored" /\ pending[s].old
    /\ pending' = [pending EXCEPT ![s].st = Cleanup(s)]
    /\ UNCHANGED <<profileLock, acct, dir, login, stray>> /\ LoginFrame

\* Context, browser, Playwright, then the lock.  The identifier is a uuid: a
\* request that still holds it will find nothing under it.
PendingCloses(s) ==
    /\ pending[s].st = "closing"
    /\ \A r \in Logins : login[r].sid # s
    /\ ReleaseLock(pending[s].acc, s)
    /\ pending' = [pending EXCEPT ![s] = NoPending]
    /\ UNCHANGED <<acct, dir, login, stray>> /\ LoginFrame

-----------------------------------------------------------------------------
(* Edits, other browsers, LinkedIn, time and restarts.                     *)

\* Row and directory go; no lock is asked for.
DeleteAccount(a) ==
    /\ a \in Rows /\ (EditsRace \/ ~UnderWay(a))
    /\ SetStatus(a, "deleted")
    /\ dir' = [dir EXCEPT ![a] = "gone"]
    /\ UNCHANGED <<profileLock, login>> /\ LoginUser("delete")

RenameAccount(a, e) ==
    /\ a \in Rows /\ (EditsRace \/ ~UnderWay(a))
    /\ WithMail(e) = {}
    /\ acct' = [acct EXCEPT ![a].mail = e]
    /\ UNCHANGED <<profileLock, dir, login>> /\ LoginUser("rename")

\* A new password has to be verified again.
ChangePassword(a) ==
    /\ a \in Rows
    /\ SetStatus(a, "pending")
    /\ UNCHANGED <<profileLock, dir, login>> /\ LoginUser("password")

AdminSuspends(a) ==
    /\ a \in Rows /\ (EditsRace \/ ~UnderWay(a))
    /\ SetStatus(a, "suspended")
    /\ UNCHANGED <<profileLock, dir, login>> /\ LoginUser("suspend")

\* A campaign session, a feed scan or the live chat of an active account.
OtherOpens(o, a) ==
    /\ other[o] = NoAccount /\ a \in Rows /\ acct[a].status = "active"
    /\ AcquireLock(a, o)
    /\ other' = [other EXCEPT ![o] = a]
    /\ UNCHANGED <<acct, dir, login, pending, stray, loginOps, apiRestarts>>

OtherCloses(o) ==
    /\ other[o] # NoAccount
    /\ ReleaseLock(other[o], o)
    /\ other' = [other EXCEPT ![o] = NoAccount]
    /\ UNCHANGED <<acct, dir, login, pending, stray, loginOps, apiRestarts>>

SessionLapses(a) ==
    /\ dir[a] = "signed"
    /\ dir' = [dir EXCEPT ![a] = "lapsed"]
    /\ UNCHANGED <<profileLock, acct, login, pending, stray>> /\ LoginFrame

PendingAges(s) ==
    /\ pending[s].st = "stored" /\ ~pending[s].old
    /\ pending' = [pending EXCEPT ![s].old = TRUE]
    /\ UNCHANGED <<profileLock, acct, dir, login, stray>> /\ LoginFrame

\* Thirty minutes outlast a login, the 15 minutes of its session and the 5
\* between two clean-ups: only a holder that is gone or dropped loses it.
LoginLockExpires(a) ==
    /\ \A r \in Logins : LockHeldBy(a, r) => login[r].acc # a
    /\ \A s \in Sessions : LockHeldBy(a, s) => pending[s].st = "dropped"
    /\ \A o \in Others : LockHeldBy(a, o) => other[o] # a
    /\ LockExpires(a)
    /\ UNCHANGED <<acct, dir, login, pending, stray>> /\ LoginFrame

\* The process dies with its browsers and its table of sessions.
LoginApiRestarts ==
    /\ apiRestarts < MaxApiRestarts
    /\ apiRestarts' = apiRestarts + 1
    /\ login' = [r \in Logins |-> IdleLogin]
    /\ pending' = [s \in Sessions |-> NoPending]
    /\ stray' = {}
    /\ UNCHANGED <<profileLock, acct, dir, other, loginOps>>

-----------------------------------------------------------------------------
LoginStep(r) ==
    \/ \E a \in Profiles : AddRow(r, a) \/ CodeConfirmed(r, a)
    \/ AddRowTaken(r) \/ AddOpens(r) \/ AddFails(r) \/ AddCommitFails(r)
    \/ AddSucceeds(r)
    \/ VerifyBusy(r) \/ VerifyOpens(r) \/ VerifyEnds(r) \/ VerifyLogsIn(r)
    \/ VerifyRefreshes(r) \/ VerifyRefused(r) \/ VerifyCommitFails(r)
    \/ VerifyMarks(r)
    \/ \E s \in Sessions : AddNeedsCode(r, s) \/ VerifyNeedsCode(r, s)
    \/ CodeTaken(r) \/ CodeRefused(r) \/ CodeRaises(r)
    \/ CodeWithoutRow(r) \/ CodeTidies(r)

LoginRequest(r) ==
    \/ \E e \in Emails : AddAccount(r, e)
    \/ \E a \in Profiles : VerifyAccount(r, a)
    \/ \E s \in Sessions : SubmitCode(r, s) \/ SubmitLate(r, s)

AccountEdit(a) ==
    \/ DeleteAccount(a) \/ ChangePassword(a) \/ AdminSuspends(a)
    \/ \E e \in Emails : RenameAccount(a, e)

LoginsNext ==
    \/ \E r \in Logins : LoginStep(r) \/ LoginRequest(r)
    \/ \E a \in Profiles : AccountEdit(a) \/ SessionLapses(a)
                             \/ LoginLockExpires(a)
    \/ \E s \in Sessions : PeriodicCleanup(s) \/ PendingCloses(s)
                             \/ PendingAges(s)
    \/ \E o \in Others, a \in Profiles : OtherOpens(o, a)
    \/ \E o \in Others : OtherCloses(o)
    \/ LoginApiRestarts

LoginsSpec == LoginsInit /\ [][LoginsNext]_loginVars

\* The clean-up loop runs every five minutes for as long as the process
\* lives, a request goes on to its end, and time passes.
LoginsFairness ==
    /\ \A r \in Logins : WF_loginVars(LoginStep(r))
    /\ \A s \in Sessions :
         /\ WF_loginVars(PendingAges(s))
         /\ WF_loginVars(PeriodicCleanup(s))
         /\ WF_loginVars(PendingCloses(s))

-----------------------------------------------------------------------------
(* Properties *)

\* The browsers the process can still reach.
BrowsersOn(a) == {r \in Logins : LoginOpen(r, a)}
                 \cup {s \in Sessions : PendingOpen(s, a)
                                         /\ pending[s].st # "dropped"}
                 \cup {o \in Others : other[o] = a}

\* Two Chromium processes never have one profile open: not the login and the
\* pending session it leaves, not a session and the next verification.  A
\* dropped session keeps its lock, and so the profile to itself, until the
\* lock expires.
OneLoginBrowser ==
    \A a \in Profiles :
       /\ Cardinality(BrowsersOn(a)) <= 1
       /\ \A s \in Sessions : LockHeldBy(a, s) => BrowsersOn(a) \subseteq {s}

\* An account becomes active only when its own profile has signed in: a code
\* typed for one row must not bring another one to life.
ActiveHasSignedIn ==
    [][\A a \in Profiles :
         acct'[a].status = "active" /\ acct[a].status # "active"
            => dir'[a] \in {"signed", "lapsed"}]_loginVars

\* The browser that waits for a code is closed in the end, unless a code that
\* comes too late makes get_session forget it.
PendingIsClosed ==
    \A s \in Sessions : pending[s].st \in {"stored", "closing"}
                        ~> pending[s].st \in {"none", "dropped"}

\* A page that was not final is never taken for a decision, and the wait
\* never ends early on one that may still change.
DecidesOnFinalPages ==
    \A s \in Snapshots : Terminal(s) <=> Decide(s) # "timeout"

=============================================================================
