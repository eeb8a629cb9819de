---------------------------- MODULE ServiceProofs ----------------------------
(* Theorems about the components that meet only through the profile lock,   *)
(* each for every value of its constants: the interactive logins            *)
(* (InteractiveLogins), the scans of the feed (FeedScans) and the actions   *)
(* on a lead's page (LinkedInActions).                                      *)
EXTENDS InteractiveLogins, FeedScans, LinkedInActions, FiniteSetTheorems, TLAPS

-----------------------------------------------------------------------------
(* Typing.                                                                  *)

Holders == Logins \cup Sessions \cup Others
AtProfile == {"connect", "signin", "check", "probe", "again", "mark"}

\* A request that opens or closes a browser knows its profile.
TypeInv ==
    /\ LoginTypeOK /\ profileLock \in [Profiles -> Holders \cup {NoHolder}]
    /\ \A r \in Logins : login[r].pc \in AtProfile => login[r].acc \in Profiles

Pc == {"idle", "insert", "connect", "signin", "check", "probe", "again",
       "mark", "code", "confirm", "tidy"}
LoginRecord ==
    {x \in [pc: Pc, acc: Profiles \cup {NoAccount},
            mail: Emails \cup {NoAccount}, sid: Sessions \cup {NoSession}] :
       x.pc \in AtProfile => x.acc \in Profiles}
PendingRecord == [st: {"none", "stored", "closing", "dropped"},
                  acc: Profiles \cup {NoAccount},
                  mail: Emails \cup {NoAccount}, old: BOOLEAN]
Account == [status: AccountStatus, mail: Emails \cup {NoAccount}]

LEMMA Types ==
    TypeInv <=> /\ acct \in [Profiles -> Account]
                /\ dir \in [Profiles -> {"gone", "blank", "signed", "lapsed"}]
                /\ login \in [Logins -> LoginRecord]
                /\ pending \in [Sessions -> PendingRecord]
                /\ other \in [Others -> Profiles \cup {NoAccount}]
                /\ stray \subseteq Profiles
                /\ profileLock \in [Profiles -> Holders \cup {NoHolder}]
BY DEF TypeInv, LoginTypeOK, Account, LoginRecord, PendingRecord, Pc

LEMMA TypesNext ==
    TypeInv' <=> /\ acct' \in [Profiles -> Account]
                 /\ dir' \in [Profiles -> {"gone", "blank", "signed", "lapsed"}]
                 /\ login' \in [Logins -> LoginRecord]
                 /\ pending' \in [Sessions -> PendingRecord]
                 /\ other' \in [Others -> Profiles \cup {NoAccount}]
                 /\ stray' \subseteq Profiles
                 /\ profileLock' \in [Profiles -> Holders \cup {NoHolder}]
BY DEF TypeInv, LoginTypeOK, Account, LoginRecord, PendingRecord, Pc

LEMMA IdleTyped == IdleLogin \in LoginRecord /\ NoPending \in PendingRecord
BY DEF IdleLogin, NoPending, LoginRecord, PendingRecord, Pc, AtProfile

LEMMA ReleaseTyped ==
    ASSUME TypeInv, NEW a, NEW h, ReleaseLock(a, h)
    PROVE  profileLock' \in [Profiles -> Holders \cup {NoHolder}]
BY DEF ReleaseLock, LockHeldBy, TypeInv

LEMMA AcquireTyped ==
    ASSUME TypeInv, NEW a, NEW h \in Holders, AcquireLock(a, h)
    PROVE  profileLock' \in [Profiles -> Holders \cup {NoHolder}]
BY DEF AcquireLock, TypeInv

LEMMA StatusTyped ==
    ASSUME TypeInv, NEW a, NEW st \in AccountStatus, SetStatus(a, st)
    PROVE  acct' \in [Profiles -> Account]
BY Types DEF SetStatus, Account

LEMMA StepTyped ==
    ASSUME TypeInv, NEW r \in Logins, NEW pc \in Pc, Step(r, pc),
           pc \in AtProfile => login[r].pc \in AtProfile
    PROVE  login' \in [Logins -> LoginRecord]
<1>1. login[r] \in LoginRecord
  BY Types
<1>2. [login[r] EXCEPT !.pc = pc] \in LoginRecord
  BY <1>1 DEF LoginRecord
<1> QED
  BY <1>2, Types DEF Step

LEMMA LeavesTyped ==
    ASSUME TypeInv, NEW r, Leaves(r)
    PROVE  login' \in [Logins -> LoginRecord]
BY Types, IdleTyped DEF Leaves

LEMMA HandOverTyped ==
    ASSUME TypeInv, NEW r \in Logins, NEW s \in Sessions, HandOver(r, s)
    PROVE  /\ pending' \in [Sessions -> PendingRecord]
           /\ profileLock' \in [Profiles -> Holders \cup {NoHolder}]
<1>1. login[r] \in LoginRecord
  BY Types
<1>2. [st |-> "stored", acc |-> login[r].acc, mail |-> login[r].mail,
       old |-> FALSE] \in PendingRecord
  BY <1>1 DEF LoginRecord, PendingRecord
<1>3. pending' \in [Sessions -> PendingRecord]
  BY <1>2, Types DEF HandOver
<1>4. profileLock' \in [Profiles -> Holders \cup {NoHolder}]
  BY DEF HandOver, LockHeldBy, TypeInv, Holders
<1> QED
  BY <1>3, <1>4

-----------------------------------------------------------------------------
(* Every step keeps the types.                                              *)

LEMMA WithdrawTyped ==
    ASSUME TypeInv, NEW r \in Logins, Withdraw(r)
    PROVE  /\ acct' \in [Profiles -> Account]
           /\ dir' \in [Profiles -> {"gone", "blank", "signed", "lapsed"}]
           /\ login' \in [Logins -> LoginRecord]
           /\ profileLock' \in [Profiles -> Holders \cup {NoHolder}]
<1>1. "deleted" \in AccountStatus
  BY DEF AccountStatus
<1> QED
  BY <1>1, Types, StatusTyped, ReleaseTyped, LeavesTyped DEF Withdraw

LEMMA RequestTyped ==
    ASSUME TypeInv, NEW r \in Logins, LoginRequest(r)
    PROVE  TypeInv'
<1>1. ASSUME NEW e \in Emails, AddAccount(r, e)
      PROVE  TypeInv'
  <2>a. login[r] \in LoginRecord
    BY Types
  <2>b. [login[r] EXCEPT !.pc = "insert", !.mail = e] \in LoginRecord
    BY <2>a DEF LoginRecord, Pc, AtProfile
  <2>c. login' = [login EXCEPT ![r] = [login[r] EXCEPT !.pc = "insert", !.mail = e]]
    BY <1>1, Types DEF AddAccount
  <2>1. login' \in [Logins -> LoginRecord]
    BY <2>b, <2>c, Types
  <2> QED
    BY <1>1, <2>1, Types, TypesNext DEF AddAccount, LoginUser
<1>2. ASSUME NEW a \in Profiles, VerifyAccount(r, a)
      PROVE  TypeInv'
  <2>1. acct[a].mail \in Emails \cup {NoAccount}
    BY Types DEF Account
  <2>a. login[r] \in LoginRecord
    BY Types
  <2>b. [login[r] EXCEPT !.pc = "check", !.acc = a,
                                                    !.mail = acct[a].mail] \in LoginRecord
    BY <2>a, <2>1 DEF LoginRecord, Pc, AtProfile
  <2>c. login' = [login EXCEPT ![r] = [login[r] EXCEPT !.pc = "check", !.acc = a,
                                                    !.mail = acct[a].mail]]
    BY <1>2, Types DEF VerifyAccount
  <2>2. login' \in [Logins -> LoginRecord]
    BY <2>b, <2>c, Types
  <2> QED
    BY <1>2, <2>2, Types, TypesNext DEF VerifyAccount, LoginUser
<1>3. ASSUME NEW s \in Sessions, SubmitCode(r, s)
      PROVE  TypeInv'
  <2>a. login[r] \in LoginRecord
    BY Types
  <2>b. [login[r] EXCEPT !.pc = "code", !.sid = s] \in LoginRecord
    BY <2>a DEF LoginRecord, Pc, AtProfile
  <2>c. login' = [login EXCEPT ![r] = [login[r] EXCEPT !.pc = "code", !.sid = s]]
    BY <1>3, Types DEF SubmitCode
  <2>1. login' \in [Logins -> LoginRecord]
    BY <2>b, <2>c, Types
  <2> QED
    BY <1>3, <2>1, Types, TypesNext DEF SubmitCode, LoginUser
<1>4. ASSUME NEW s \in Sessions, SubmitLate(r, s)
      PROVE  TypeInv'
  <2>1. pending' \in [Sessions -> PendingRecord]
    BY <1>4, Types DEF SubmitLate, PendingRecord
  <2> QED
    BY <1>4, <2>1, Types, TypesNext DEF SubmitLate
<1> QED
  BY <1>1, <1>2, <1>3, <1>4 DEF LoginRequest

LEMMA AddingTyped ==
    ASSUME TypeInv, NEW r \in Logins,
           \/ \E a \in Profiles : AddRow(r, a)
           \/ AddRowTaken(r) \/ AddOpens(r) \/ AddFails(r)
           \/ AddCommitFails(r) \/ AddSucceeds(r)
           \/ \E s \in Sessions : AddNeedsCode(r, s)
    PROVE  TypeInv'
<1>1. ASSUME NEW a \in Profiles, AddRow(r, a)
      PROVE  TypeInv'
  <2>1. login[r].mail \in Emails \cup {NoAccount}
    BY Types DEF LoginRecord
  <2>2. [status |-> "pending", mail |-> login[r].mail] \in Account
    BY <2>1 DEF Account, AccountStatus
  <2>3. acct' \in [Profiles -> Account]
    BY <1>1, <2>2, Types DEF AddRow
  <2>a. login[r] \in LoginRecord
    BY Types
  <2>b. [login[r] EXCEPT !.pc = "connect", !.acc = a] \in LoginRecord
    BY <2>a DEF LoginRecord, Pc, AtProfile
  <2>c. login' = [login EXCEPT ![r] = [login[r] EXCEPT !.pc = "connect", !.acc = a]]
    BY <1>1, Types DEF AddRow
  <2>4. login' \in [Logins -> LoginRecord]
    BY <2>b, <2>c, Types
  <2> QED
    BY <1>1, <2>3, <2>4, Types, TypesNext DEF AddRow, LoginFrame
<1>2. ASSUME AddRowTaken(r)  PROVE TypeInv'
  BY <1>2, Types, TypesNext, LeavesTyped DEF AddRowTaken, LoginFrame
<1>3. ASSUME AddOpens(r)  PROVE TypeInv'
  <2>1. "signin" \in Pc /\ r \in Holders /\ "connect" \in AtProfile
    BY DEF Pc, Holders, AtProfile
  <2> QED
    BY <1>3, <2>1, Types, TypesNext, StepTyped, AcquireTyped
       DEF AddOpens, LoginFrame
<1>4. ASSUME AddFails(r)  PROVE TypeInv'
  BY <1>4, Types, TypesNext, WithdrawTyped DEF AddFails, LoginFrame
<1>5. ASSUME AddCommitFails(r)  PROVE TypeInv'
  <2>1. login[r].acc \in Profiles
    BY <1>5 DEF AddCommitFails, TypeInv, AtProfile
  <2> QED
    BY <1>5, <2>1, Types, TypesNext, WithdrawTyped DEF AddCommitFails, LoginFrame
<1>6. ASSUME AddSucceeds(r)  PROVE TypeInv'
  <2>1. "active" \in AccountStatus
    BY DEF AccountStatus
  <2> QED
    BY <1>6, <2>1, Types, TypesNext, StatusTyped, ReleaseTyped, LeavesTyped
       DEF AddSucceeds, LoginFrame
<1>7. ASSUME NEW s \in Sessions, AddNeedsCode(r, s)
      PROVE  TypeInv'
  BY <1>7, Types, TypesNext, HandOverTyped, LeavesTyped
     DEF AddNeedsCode, LoginFrame
<1> QED
  BY <1>1, <1>2, <1>3, <1>4, <1>5, <1>6, <1>7

LEMMA VerifyingTyped ==
    ASSUME TypeInv, NEW r \in Logins,
           \/ VerifyBusy(r) \/ VerifyOpens(r) \/ VerifyEnds(r)
           \/ VerifyLogsIn(r) \/ VerifyRefreshes(r) \/ VerifyRefused(r)
           \/ VerifyCommitFails(r) \/ VerifyMarks(r)
           \/ \E s \in Sessions : VerifyNeedsCode(r, s)
    PROVE  TypeInv'
<1>0. /\ {"probe", "again", "mark"} \subseteq Pc
      /\ {"check", "probe", "again"} \subseteq AtProfile
      /\ {"active", "failed", "pending"} \subseteq AccountStatus
  BY DEF Pc, AtProfile, AccountStatus
<1>1. ASSUME VerifyBusy(r)  PROVE TypeInv'
  BY <1>1, Types, TypesNext, LeavesTyped DEF VerifyBusy, LoginFrame
<1>2. ASSUME VerifyOpens(r)  PROVE TypeInv'
  <2>1. r \in Holders
    BY DEF Holders
  <2> QED
    BY <1>0, <1>2, <2>1, Types, TypesNext, StepTyped, AcquireTyped
       DEF VerifyOpens, LoginFrame
<1>3. ASSUME VerifyEnds(r)  PROVE TypeInv'
  BY <1>3, Types, TypesNext, ReleaseTyped, LeavesTyped DEF VerifyEnds, LoginFrame
<1>4. ASSUME VerifyLogsIn(r)  PROVE TypeInv'
  BY <1>0, <1>4, Types, TypesNext, StepTyped DEF VerifyLogsIn, LoginFrame
<1>5. ASSUME VerifyRefreshes(r)  PROVE TypeInv'
  <2>1. acct' \in [Profiles -> Account]
    BY <1>0, <1>5, Types, StatusTyped DEF VerifyRefreshes, SetStatus
  <2> QED
    BY <1>5, <2>1, Types, TypesNext, ReleaseTyped, LeavesTyped
       DEF VerifyRefreshes, LoginFrame
<1>6. ASSUME VerifyRefused(r)  PROVE TypeInv'
  <2>1. acct' \in [Profiles -> Account]
    BY <1>0, <1>6, Types, StatusTyped DEF VerifyRefused, SetStatus
  <2> QED
    BY <1>6, <2>1, Types, TypesNext, ReleaseTyped, LeavesTyped
       DEF VerifyRefused, LoginFrame
<1>7. ASSUME VerifyCommitFails(r)  PROVE TypeInv'
  <2>1. login[r].acc \in Profiles
    BY <1>7 DEF VerifyCommitFails, TypeInv, AtProfile
  <2> QED
    BY <1>7, <2>1, Types, TypesNext, ReleaseTyped, LeavesTyped
       DEF VerifyCommitFails, LoginFrame
<1>8. ASSUME VerifyMarks(r)  PROVE TypeInv'
  <2>1. acct' \in [Profiles -> Account]
    BY <1>0, <1>8, Types, StatusTyped DEF VerifyMarks, SetStatus
  <2> QED
    BY <1>8, <2>1, Types, TypesNext, LeavesTyped DEF VerifyMarks, LoginFrame
<1>9. ASSUME NEW s \in Sessions, VerifyNeedsCode(r, s)
      PROVE  TypeInv'
  BY <1>0, <1>9, Types, TypesNext, HandOverTyped, StepTyped
     DEF VerifyNeedsCode, LoginFrame
<1> QED
  BY <1>1, <1>2, <1>3, <1>4, <1>5, <1>6, <1>7, <1>8, <1>9

LEMMA CodeTyped ==
    ASSUME TypeInv, NEW r \in Logins,
           \/ CodeTaken(r) \/ CodeRefused(r) \/ CodeRaises(r)
           \/ \E a \in Profiles : CodeConfirmed(r, a)
           \/ CodeWithoutRow(r) \/ CodeTidies(r)
    PROVE  TypeInv'
<1>0. {"confirm", "tidy"} \subseteq Pc \ AtProfile /\ "active" \in AccountStatus
  BY DEF Pc, AtProfile, AccountStatus
<1>1. ASSUME CodeTaken(r)  PROVE TypeInv'
  <2>1. dir' \in [Profiles -> {"gone", "blank", "signed", "lapsed"}]
    BY <1>1, Types DEF CodeTaken
  <2>2. login' \in [Logins -> LoginRecord]
    BY <1>0, <1>1, StepTyped DEF CodeTaken
  <2> QED
    BY <1>1, <2>1, <2>2, Types, TypesNext, StepTyped DEF CodeTaken, LoginFrame
<1>2. ASSUME CodeRefused(r)  PROVE TypeInv'
  BY <1>2, Types, TypesNext, LeavesTyped DEF CodeRefused, LoginFrame
<1>3. ASSUME CodeRaises(r)  PROVE TypeInv'
  BY <1>0, <1>3, Types, TypesNext, StepTyped DEF CodeRaises, LoginFrame
<1>4. ASSUME NEW a \in Profiles, CodeConfirmed(r, a)
      PROVE  TypeInv'
  BY <1>0, <1>4, Types, TypesNext, StepTyped, StatusTyped
     DEF CodeConfirmed, LoginFrame
<1>5. ASSUME CodeWithoutRow(r)  PROVE TypeInv'
  BY <1>5, Types, TypesNext, LeavesTyped DEF CodeWithoutRow, LoginFrame
<1>6. ASSUME CodeTidies(r)  PROVE TypeInv'
  <2>1. pending' \in [Sessions -> PendingRecord]
    <3>1. CASE login[r].sid \in Sessions
      <4> DEFINE x == pending[login[r].sid]
      <4>1. x \in PendingRecord
        BY <3>1, Types
      <4>2. [x EXCEPT !.st = Cleanup(login[r].sid)] \in PendingRecord
        BY <4>1 DEF Cleanup, PendingRecord
      <4> QED
        BY <1>6, <3>1, <4>2, Types DEF CodeTidies
    <3>2. CASE login[r].sid \notin Sessions
      BY <1>6, <3>2, Types DEF CodeTidies
    <3> QED
      BY <3>1, <3>2
  <2> QED
    BY <1>6, <2>1, Types, TypesNext, LeavesTyped DEF CodeTidies, LoginFrame
<1> QED
  BY <1>1, <1>2, <1>3, <1>4, <1>5, <1>6

LEMMA EditTyped ==
    ASSUME TypeInv, NEW a \in Profiles,
           AccountEdit(a) \/ SessionLapses(a) \/ LoginLockExpires(a)
    PROVE  TypeInv'
<1>0. {"deleted", "pending", "suspended"} \subseteq AccountStatus
  BY DEF AccountStatus
<1>1. ASSUME DeleteAccount(a)  PROVE TypeInv'
  BY <1>0, <1>1, Types, TypesNext, StatusTyped DEF DeleteAccount, LoginUser
<1>2. ASSUME ChangePassword(a)  PROVE TypeInv'
  BY <1>0, <1>2, Types, TypesNext, StatusTyped DEF ChangePassword, LoginUser
<1>3. ASSUME AdminSuspends(a)  PROVE TypeInv'
  BY <1>0, <1>3, Types, TypesNext, StatusTyped DEF AdminSuspends, LoginUser
<1>4. ASSUME NEW e \in Emails, RenameAccount(a, e)  PROVE TypeInv'
  <2>1. acct' \in [Profiles -> Account]
    BY <1>4, Types DEF RenameAccount, Account
  <2> QED
    BY <1>4, <2>1, Types, TypesNext DEF RenameAccount, LoginUser
<1>5. ASSUME SessionLapses(a)  PROVE TypeInv'
  BY <1>5, Types, TypesNext DEF SessionLapses, LoginFrame
<1>6. ASSUME LoginLockExpires(a)  PROVE TypeInv'
  BY <1>6, Types, TypesNext DEF LoginLockExpires, LockExpires, LoginFrame
<1> QED
  BY <1>1, <1>2, <1>3, <1>4, <1>5, <1>6 DEF AccountEdit

LEMMA PendingTyped ==
    ASSUME TypeInv, NEW s \in Sessions,
           PeriodicCleanup(s) \/ PendingCloses(s) \/ PendingAges(s)
    PROVE  TypeInv'
<1>0. pending[s] \in PendingRecord
  BY Types
<1>1. ASSUME PeriodicCleanup(s)  PROVE TypeInv'
  <2>1. pending' \in [Sessions -> PendingRecord]
    BY <1>1, Types DEF PeriodicCleanup, Cleanup, PendingRecord
  <2> QED
    BY <1>1, <2>1, Types, TypesNext DEF PeriodicCleanup, LoginFrame
<1>2. ASSUME PendingCloses(s)  PROVE TypeInv'
  BY <1>2, Types, TypesNext, IdleTyped, ReleaseTyped
     DEF PendingCloses, LoginFrame
<1>3. ASSUME PendingAges(s)  PROVE TypeInv'
  <2>1. pending' \in [Sessions -> PendingRecord]
    BY <1>3, Types DEF PendingAges, PendingRecord
  <2> QED
    BY <1>3, <2>1, Types, TypesNext DEF PendingAges, LoginFrame
<1> QED
  BY <1>1, <1>2, <1>3

LEMMA TypeStep == TypeInv /\ [LoginsNext]_loginVars => TypeInv'
<1> SUFFICES ASSUME TypeInv, [LoginsNext]_loginVars  PROVE TypeInv'
  OBVIOUS
<1>1. ASSUME NEW r \in Logins, LoginStep(r)  PROVE TypeInv'
  BY <1>1, AddingTyped, VerifyingTyped, CodeTyped DEF LoginStep
<1>2. ASSUME NEW r \in Logins, LoginRequest(r)  PROVE TypeInv'
  BY <1>2, RequestTyped
<1>3. ASSUME NEW a \in Profiles,
             AccountEdit(a) \/ SessionLapses(a) \/ LoginLockExpires(a)
      PROVE  TypeInv'
  BY <1>3, EditTyped
<1>4. ASSUME NEW s \in Sessions,
             PeriodicCleanup(s) \/ PendingCloses(s) \/ PendingAges(s)
      PROVE  TypeInv'
  BY <1>4, PendingTyped
<1>5. ASSUME NEW o \in Others, NEW a \in Profiles, OtherOpens(o, a)
      PROVE  TypeInv'
  <2>1. o \in Holders
    BY DEF Holders
  <2> QED
    BY <1>5, <2>1, Types, TypesNext, AcquireTyped DEF OtherOpens
<1>6. ASSUME NEW o \in Others, OtherCloses(o)  PROVE TypeInv'
  BY <1>6, Types, TypesNext, ReleaseTyped DEF OtherCloses
<1>7. CASE LoginApiRestarts
  BY <1>7, Types, TypesNext, IdleTyped DEF LoginApiRestarts
<1>8. CASE UNCHANGED loginVars
  BY <1>8, Types, TypesNext DEF loginVars
<1> QED
  BY <1>1, <1>2, <1>3, <1>4, <1>5, <1>6, <1>7, <1>8 DEF LoginsNext

LEMMA TypeInit == LoginsInit => TypeInv
BY IdleTyped, Types DEF LoginsInit, LocksInit, Account, AccountStatus

\* Every reachable state of the logins is well typed, and a request that
\* opens or closes a browser knows its profile.
THEOREM LoginTypeCorrect == LoginsSpec => []TypeInv
BY TypeInit, TypeStep, PTL DEF LoginsSpec

-----------------------------------------------------------------------------
(* Whoever has a browser open on a profile holds its lock.                  *)

Opens(h, a) ==
    \/ h \in Logins /\ LoginOpen(h, a)
    \/ h \in Sessions /\ PendingOpen(h, a) /\ pending[h].st # "dropped"
    \/ h \in Others /\ other[h] = a

HoldsLock ==
    \A h \in Holders, a \in Profiles : Opens(h, a) => profileLock[a] = h

\* Nothing new is open and no lock of an open browser has changed hands.
LEMMA NothingOpens ==
    ASSUME HoldsLock,
           \A h \in Holders, a \in Profiles :
              Opens(h, a)' => /\ Opens(h, a)
                              /\ profileLock[a] = h => profileLock'[a] = h
    PROVE  HoldsLock'
BY DEF HoldsLock

LEMMA SameBrowsers ==
    ASSUME HoldsLock, UNCHANGED <<profileLock, login, pending, other>>
    PROVE  HoldsLock'
BY DEF HoldsLock, Opens, LoginOpen, PendingOpen

LEMMA AfterLeaving ==
    ASSUME TypeInv, NEW r \in Logins, Leaves(r), UNCHANGED <<pending, other>>,
           NEW h \in Holders, NEW a \in Profiles, Opens(h, a)'
    PROVE  Opens(h, a) /\ h # r
<1>1. login'[r] = IdleLogin /\ \A q \in Logins \ {r} : login'[q] = login[q]
  BY Types DEF Leaves
<1>2. ~LoginOpen(r, a)'
  BY <1>1 DEF LoginOpen, IdleLogin
<1> QED
  BY <1>1, <1>2, LoginAssumption DEF Opens, LoginOpen, PendingOpen

LEMMA AfterRelease ==
    ASSUME TypeInv, NEW b \in Profiles, NEW g, ReleaseLock(b, g),
           NEW h \in Holders, NEW a \in Profiles, profileLock[a] = h, h # g
    PROVE  profileLock'[a] = h
BY DEF TypeInv, ReleaseLock, LockHeldBy

LEMMA LeavesKeeps ==
    ASSUME TypeInv, HoldsLock, NEW r \in Logins, Leaves(r),
           UNCHANGED <<pending, other>>,
           \/ UNCHANGED profileLock
           \/ login[r].acc \in Profiles /\ ReleaseLock(login[r].acc, r)
    PROVE  HoldsLock'
BY AfterLeaving, AfterRelease, NothingOpens

LEMMA MovesKeeps ==
    ASSUME TypeInv, HoldsLock, NEW r \in Logins, NEW pc, Step(r, pc),
           UNCHANGED <<profileLock, pending, other>>,
           pc \in {"signin", "probe", "again"}
             => login[r].pc \in {"signin", "probe", "again"}
    PROVE  HoldsLock'
<1>1. /\ login'[r].pc = pc /\ login'[r].acc = login[r].acc
      /\ \A q \in Logins \ {r} : login'[q] = login[q]
  BY Types DEF Step, LoginRecord
<1>2. \A h \in Holders, a \in Profiles : Opens(h, a)' => Opens(h, a)
  BY <1>1 DEF Opens, LoginOpen, PendingOpen
<1> QED
  BY <1>2, NothingOpens

LEMMA AcquireKeeps ==
    ASSUME TypeInv, HoldsLock, NEW b \in Profiles, NEW g \in Holders,
           AcquireLock(b, g),
           \A h \in Holders, a \in Profiles :
              Opens(h, a)' => Opens(h, a) \/ (h = g /\ a = b)
    PROVE  HoldsLock'
<1> SUFFICES ASSUME NEW h \in Holders, NEW a \in Profiles, Opens(h, a)'
             PROVE  profileLock'[a] = h
  BY DEF HoldsLock
<1>1. profileLock[b] = NoHolder /\ profileLock' = [profileLock EXCEPT ![b] = g]
  BY DEF AcquireLock, LockFree
<1>2. NoHolder \notin Holders
  BY LoginAssumption DEF Holders
<1>3. CASE h = g /\ a = b
  BY <1>1, <1>3 DEF TypeInv
<1>4. CASE Opens(h, a)
  BY <1>1, <1>2, <1>4 DEF HoldsLock, TypeInv
<1> QED
  BY <1>3, <1>4

LEMMA OpensAtProfile ==
    ASSUME TypeInv, HoldsLock, NEW r \in Logins, NEW pc,
           login[r].pc \in {"connect", "check"},
           AcquireLock(login[r].acc, r), Step(r, pc),
           UNCHANGED <<pending, other>>
    PROVE  HoldsLock'
<1>1. login[r].acc \in Profiles /\ r \in Holders
  BY DEF TypeInv, AtProfile, Holders
<1>2. /\ login'[r].pc = pc /\ login'[r].acc = login[r].acc
      /\ \A q \in Logins \ {r} : login'[q] = login[q]
  BY Types DEF Step, LoginRecord
<1>3. \A h \in Holders, a \in Profiles :
         Opens(h, a)' => Opens(h, a) \/ (h = r /\ a = login[r].acc)
  BY <1>2 DEF Opens, LoginOpen, PendingOpen
<1> QED
  BY <1>1, <1>3, AcquireKeeps

\* The pending session takes over the browser together with its lock.
LEMMA HandOverKeeps ==
    ASSUME TypeInv, HoldsLock, NEW r \in Logins, NEW s \in Sessions,
           login[r].pc \in {"signin", "probe", "again"},
           pending[s].st = "none", HandOver(r, s), UNCHANGED other,
           Leaves(r) \/ Step(r, "mark")
    PROVE  HoldsLock'
<1> DEFINE b == login[r].acc
<1>1. b \in Profiles /\ r \in Holders /\ s \in Holders /\ r # s
  BY LoginAssumption DEF TypeInv, AtProfile, Holders
<1>2. profileLock[b] = r
  BY <1>1 DEF HoldsLock, Opens, LoginOpen
<1>3. /\ profileLock'[b] = s
      /\ \A a \in Profiles \ {b} : profileLock'[a] = profileLock[a]
  BY <1>1, <1>2 DEF HandOver, LockHeldBy, TypeInv
<1>4. /\ pending'[s].acc = b
      /\ \A t \in Sessions \ {s} : pending'[t] = pending[t]
  BY Types DEF HandOver
<1>5. \A q \in Logins \ {r} : login'[q] = login[q]
  BY Types DEF Leaves, Step
<1>6. \A a \in Profiles : ~LoginOpen(r, a)'
  <2>1. login'[r].pc \in {"idle", "mark"}
    BY Types DEF Leaves, Step, IdleLogin, LoginRecord
  <2> QED
    BY <2>1 DEF LoginOpen
<1> SUFFICES ASSUME NEW h \in Holders, NEW a \in Profiles, Opens(h, a)'
             PROVE  profileLock'[a] = h
  BY DEF HoldsLock
<1>7. CASE h = s
  <2>1. a = b
    BY <1>1, <1>4, <1>7, LoginAssumption DEF Opens, PendingOpen
  <2> QED
    BY <1>3, <1>7, <2>1
<1>8. CASE h # s
  <2>1. Opens(h, a) /\ h # r
    BY <1>4, <1>5, <1>6, <1>8, LoginAssumption
       DEF Opens, LoginOpen, PendingOpen
  <2>2. profileLock[a] = h
    BY <2>1 DEF HoldsLock
  <2> QED
    BY <1>2, <1>3, <2>1, <2>2
<1> QED
  BY <1>7, <1>8

LEMMA StepHolds ==
    ASSUME TypeInv, HoldsLock, NEW r \in Logins, LoginStep(r)
    PROVE  HoldsLock'
<1>0. ASSUME login[r].pc \in AtProfile  PROVE login[r].acc \in Profiles
  BY <1>0 DEF TypeInv
<1>1. ASSUME NEW a \in Profiles, AddRow(r, a)  PROVE HoldsLock'
  <2>1. /\ login'[r].pc = "connect"
        /\ \A q \in Logins \ {r} : login'[q] = login[q]
    BY <1>1, Types DEF AddRow, LoginRecord
  <2> QED
    BY <1>1, <2>1, NothingOpens
       DEF AddRow, LoginFrame, Opens, LoginOpen, PendingOpen
<1>2. ASSUME NEW a \in Profiles, CodeConfirmed(r, a)  PROVE HoldsLock'
  BY <1>2, MovesKeeps DEF CodeConfirmed, LoginFrame
<1>3. CASE AddRowTaken(r)
  BY <1>3, LeavesKeeps DEF AddRowTaken, LoginFrame
<1>4. CASE AddOpens(r)
  BY <1>4, OpensAtProfile DEF AddOpens, LoginFrame
<1>5. CASE AddFails(r)
  BY <1>0, <1>5, LeavesKeeps DEF AddFails, Withdraw, LoginFrame, AtProfile
<1>6. CASE AddCommitFails(r)
  BY <1>0, <1>6, LeavesKeeps DEF AddCommitFails, Withdraw, LoginFrame, AtProfile
<1>7. CASE AddSucceeds(r)
  BY <1>0, <1>7, LeavesKeeps DEF AddSucceeds, LoginFrame, AtProfile
<1>8. CASE VerifyBusy(r)
  BY <1>8, LeavesKeeps DEF VerifyBusy, LoginFrame
<1>9. CASE VerifyOpens(r)
  BY <1>9, OpensAtProfile DEF VerifyOpens, LoginFrame
<1>10. CASE VerifyEnds(r)
  BY <1>0, <1>10, LeavesKeeps DEF VerifyEnds, LoginFrame, AtProfile
<1>11. CASE VerifyLogsIn(r)
  BY <1>11, MovesKeeps DEF VerifyLogsIn, LoginFrame
<1>12. CASE VerifyRefreshes(r)
  BY <1>0, <1>12, LeavesKeeps DEF VerifyRefreshes, LoginFrame, AtProfile
<1>13. CASE VerifyRefused(r)
  BY <1>0, <1>13, LeavesKeeps DEF VerifyRefused, LoginFrame, AtProfile
<1>14. CASE VerifyCommitFails(r)
  BY <1>0, <1>14, LeavesKeeps DEF VerifyCommitFails, LoginFrame, AtProfile
<1>15. CASE VerifyMarks(r)
  BY <1>15, LeavesKeeps DEF VerifyMarks, LoginFrame
<1>16. ASSUME NEW s \in Sessions, AddNeedsCode(r, s)  PROVE HoldsLock'
  BY <1>16, HandOverKeeps DEF AddNeedsCode, LoginFrame
<1>17. ASSUME NEW s \in Sessions, VerifyNeedsCode(r, s)  PROVE HoldsLock'
  BY <1>17, HandOverKeeps DEF VerifyNeedsCode, LoginFrame
<1>18. CASE CodeTaken(r)
  BY <1>18, MovesKeeps DEF CodeTaken, LoginFrame
<1>19. CASE CodeRefused(r)
  BY <1>19, LeavesKeeps DEF CodeRefused, LoginFrame
<1>20. CASE CodeRaises(r)
  BY <1>20, MovesKeeps DEF CodeRaises, LoginFrame
<1>21. CASE CodeWithoutRow(r)
  BY <1>21, LeavesKeeps DEF CodeWithoutRow, LoginFrame
<1>22. CASE CodeTidies(r)
  <2>1. \A s \in Sessions :
          /\ pending'[s].acc = pending[s].acc
          /\ pending'[s].st = "none" <=> pending[s].st = "none"
          /\ pending'[s].st = "dropped" <=> pending[s].st = "dropped"
    BY <1>22, Types DEF CodeTidies, Cleanup, PendingRecord
  <2>2. \A q \in Logins, a \in Profiles :
           LoginOpen(q, a)' => LoginOpen(q, a)
    BY <1>22, Types DEF CodeTidies, Leaves, LoginOpen, IdleLogin
  <2> QED
    BY <1>22, <2>1, <2>2, NothingOpens
       DEF CodeTidies, LoginFrame, Opens, PendingOpen
<1> QED
  BY <1>1, <1>2, <1>3, <1>4, <1>5, <1>6, <1>7, <1>8, <1>9, <1>10, <1>11, <1>12,
     <1>13, <1>14, <1>15, <1>16, <1>17, <1>18, <1>19, <1>20, <1>21, <1>22
     DEF LoginStep

LEMMA RequestHolds ==
    ASSUME TypeInv, HoldsLock, NEW r \in Logins, LoginRequest(r)
    PROVE  HoldsLock'
<1>1. ASSUME NEW pc \in {"insert", "check", "code"}, login'[r].pc = pc,
             \A q \in Logins \ {r} : login'[q] = login[q],
             UNCHANGED <<profileLock, pending, other>>
      PROVE  HoldsLock'
  BY <1>1, NothingOpens DEF Opens, LoginOpen, PendingOpen
<1>2. ASSUME NEW e \in Emails, AddAccount(r, e)  PROVE HoldsLock'
  <2>1. /\ login'[r].pc = "insert"
        /\ \A q \in Logins \ {r} : login'[q] = login[q]
    BY <1>2, Types DEF AddAccount, LoginRecord
  <2> QED
    BY <1>1, <1>2, <2>1 DEF AddAccount, LoginUser
<1>3. ASSUME NEW a \in Profiles, VerifyAccount(r, a)  PROVE HoldsLock'
  <2>1. /\ login'[r].pc = "check"
        /\ \A q \in Logins \ {r} : login'[q] = login[q]
    BY <1>3, Types DEF VerifyAccount, LoginRecord
  <2> QED
    BY <1>1, <1>3, <2>1 DEF VerifyAccount, LoginUser
<1>4. ASSUME NEW s \in Sessions, SubmitCode(r, s)  PROVE HoldsLock'
  <2>1. /\ login'[r].pc = "code"
        /\ \A q \in Logins \ {r} : login'[q] = login[q]
    BY <1>4, Types DEF SubmitCode, LoginRecord
  <2> QED
    BY <1>1, <1>4, <2>1 DEF SubmitCode, LoginUser
<1>5. ASSUME NEW s \in Sessions, SubmitLate(r, s)  PROVE HoldsLock'
  <2>1. /\ pending'[s].st = "dropped"
        /\ \A t \in Sessions \ {s} : pending'[t] = pending[t]
    BY <1>5, Types DEF SubmitLate, PendingRecord
  <2> QED
    BY <1>5, <2>1, NothingOpens DEF SubmitLate, Opens, LoginOpen, PendingOpen
<1> QED
  BY <1>2, <1>3, <1>4, <1>5 DEF LoginRequest

LEMMA PendingHolds ==
    ASSUME TypeInv, HoldsLock, NEW s \in Sessions,
           PeriodicCleanup(s) \/ PendingCloses(s) \/ PendingAges(s)
    PROVE  HoldsLock'
<1>1. CASE PeriodicCleanup(s) \/ PendingAges(s)
  <2>1. \A t \in Sessions :
          /\ pending'[t].acc = pending[t].acc
          /\ pending'[t].st = "none" <=> pending[t].st = "none"
          /\ pending'[t].st = "dropped" <=> pending[t].st = "dropped"
    BY <1>1, Types DEF PeriodicCleanup, PendingAges, Cleanup, PendingRecord
  <2> QED
    BY <1>1, <2>1, NothingOpens
       DEF PeriodicCleanup, PendingAges, LoginFrame, Opens, LoginOpen,
           PendingOpen
<1>2. CASE PendingCloses(s)
  <2>1. /\ pending'[s].st = "none"
        /\ \A t \in Sessions \ {s} : pending'[t] = pending[t]
    BY <1>2, Types DEF PendingCloses, NoPending
  <2>2. \A h \in Holders, a \in Profiles :
           Opens(h, a)' => Opens(h, a) /\ h # s
    BY <1>2, <2>1, LoginAssumption
       DEF PendingCloses, LoginFrame, Opens, LoginOpen, PendingOpen
  <2>3. \A h \in Holders, a \in Profiles :
           profileLock[a] = h /\ h # s => profileLock'[a] = h
    BY <1>2 DEF PendingCloses, ReleaseLock, LockHeldBy, TypeInv
  <2> QED
    BY <2>2, <2>3, NothingOpens
<1> QED
  BY <1>1, <1>2

LEMMA OthersHold ==
    ASSUME TypeInv, HoldsLock, NEW o \in Others,
           OtherCloses(o) \/ \E a \in Profiles : OtherOpens(o, a)
    PROVE  HoldsLock'
<1>1. CASE OtherCloses(o)
  <2>1. /\ other'[o] = NoAccount
        /\ \A x \in Others \ {o} : other'[x] = other[x]
    BY <1>1, Types DEF OtherCloses
  <2>2. \A h \in Holders, a \in Profiles :
           Opens(h, a)' => Opens(h, a) /\ h # o
    BY <1>1, <2>1, LoginAssumption
       DEF OtherCloses, Opens, LoginOpen, PendingOpen
  <2>3. \A h \in Holders, a \in Profiles :
           profileLock[a] = h /\ h # o => profileLock'[a] = h
    BY <1>1 DEF OtherCloses, ReleaseLock, LockHeldBy, TypeInv
  <2> QED
    BY <2>2, <2>3, NothingOpens
<1>2. ASSUME NEW b \in Profiles, OtherOpens(o, b)  PROVE HoldsLock'
  <2>1. /\ other'[o] = b
        /\ \A x \in Others \ {o} : other'[x] = other[x]
    BY <1>2, Types DEF OtherOpens
  <2>2. \A h \in Holders, a \in Profiles :
           Opens(h, a)' => Opens(h, a) \/ (h = o /\ a = b)
    BY <1>2, <2>1, LoginAssumption
       DEF OtherOpens, Opens, LoginOpen, PendingOpen
  <2> QED
    BY <1>2, <2>2, AcquireKeeps DEF OtherOpens, Holders
<1> QED
  BY <1>1, <1>2

LEMMA HoldsStep == TypeInv /\ HoldsLock /\ [LoginsNext]_loginVars => HoldsLock'
<1> SUFFICES ASSUME TypeInv, HoldsLock, [LoginsNext]_loginVars
             PROVE  HoldsLock'
  OBVIOUS
<1>1. ASSUME NEW r \in Logins, LoginStep(r) \/ LoginRequest(r)
      PROVE  HoldsLock'
  BY <1>1, StepHolds, RequestHolds
<1>2. ASSUME NEW a \in Profiles, AccountEdit(a) \/ SessionLapses(a)
      PROVE  HoldsLock'
  BY <1>2, SameBrowsers
     DEF AccountEdit, SessionLapses, DeleteAccount, ChangePassword,
         AdminSuspends, RenameAccount, LoginUser, LoginFrame
<1>3. ASSUME NEW a \in Profiles, LoginLockExpires(a)  PROVE HoldsLock'
  BY <1>3, NothingOpens
     DEF LoginLockExpires, LockExpires, LockHeldBy, LoginFrame, TypeInv,
         Opens, LoginOpen, PendingOpen
<1>4. ASSUME NEW s \in Sessions,
             PeriodicCleanup(s) \/ PendingCloses(s) \/ PendingAges(s)
      PROVE  HoldsLock'
  BY <1>4, PendingHolds
<1>5. ASSUME NEW o \in Others,
             OtherCloses(o) \/ \E a \in Profiles : OtherOpens(o, a)
      PROVE  HoldsLock'
  BY <1>5, OthersHold
<1>6. CASE LoginApiRestarts
  BY <1>6, NothingOpens
     DEF LoginApiRestarts, Opens, LoginOpen, PendingOpen, IdleLogin, NoPending
<1>7. CASE UNCHANGED loginVars
  BY <1>7, SameBrowsers DEF loginVars
<1> QED
  BY <1>1, <1>2, <1>3, <1>4, <1>5, <1>6, <1>7 DEF LoginsNext

LEMMA HoldsInit == LoginsInit => HoldsLock
BY LoginAssumption
   DEF LoginsInit, HoldsLock, Opens, LoginOpen, PendingOpen, IdleLogin, NoPending

LEMMA LockMeansAlone == HoldsLock => OneLoginBrowser
<1> SUFFICES ASSUME HoldsLock, NEW a \in Profiles
             PROVE  /\ Cardinality(BrowsersOn(a)) <= 1
                    /\ \A s \in Sessions :
                          LockHeldBy(a, s) => BrowsersOn(a) \subseteq {s}
  BY DEF OneLoginBrowser
<1>1. BrowsersOn(a) \subseteq {profileLock[a]}
  BY DEF BrowsersOn, HoldsLock, Opens, Holders
<1>2. BrowsersOn(a) = {} \/ BrowsersOn(a) = {profileLock[a]}
  BY <1>1
<1>3. Cardinality(BrowsersOn(a)) <= 1
  <2>1. Cardinality({}) = 0
    BY FS_EmptySet
  <2>2. Cardinality({profileLock[a]}) = 1
    BY FS_Singleton
  <2>3. Cardinality(BrowsersOn(a)) \in {0, 1}
    BY <1>2, <2>1, <2>2
  <2> QED
    BY <2>3
<1> QED
  BY <1>1, <1>3 DEF LockHeldBy

\* The browsers of logins, pending sessions and campaigns never share a
\* profile, also when rows are deleted or renamed under a login.
THEOREM OneLoginBrowserCorrect == LoginsSpec => []OneLoginBrowser
<1>1. LoginsSpec => [](TypeInv /\ HoldsLock)
  BY TypeInit, HoldsInit, TypeStep, HoldsStep, PTL DEF LoginsSpec
<1> QED
  BY <1>1, LockMeansAlone, PTL

-----------------------------------------------------------------------------
(* Which account a login is about, while no row is deleted, renamed or      *)
(* suspended under a login.                                                 *)

AddAlone(r) ==
    LET a == login[r].acc IN
    /\ a \in Rows /\ acct[a].status = "pending"
    /\ \A q \in Logins \ {r} : login[q].acc # a
    /\ \A s \in Sessions : ~PendingOpen(s, a)

\* The row that is being added is pending, and nobody else's business.
AddsAlone ==
    \A r \in Logins : login[r].pc \in {"connect", "signin"} => AddAlone(r)

\* A request knows the row of its profile by its e-mail, ...
LoginRow ==
    \A r \in Logins : login[r].pc \in AtProfile =>
        login[r].acc \in Rows /\ acct[login[r].acc].mail = login[r].mail

\* ... so does a pending session, ...
PendingRow ==
    \A s \in Sessions : pending[s].st # "none" =>
        pending[s].acc \in Rows /\ acct[pending[s].acc].mail = pending[s].mail

\* ... and no other row has it.
OneRowPerMail == \A a, b \in Rows : acct[a].mail = acct[b].mail => a = b

RowHasDir == \A a \in Rows : dir[a] # "gone"

\* A code that was taken has signed in the profile of its pending session.
CodeHeld ==
    \A r \in Logins : login[r].pc \in {"code", "confirm", "tidy"} =>
        /\ login[r].sid \in Sessions /\ PageOf(r).st # "none"
        /\ login[r].pc = "confirm" => dir[PageOf(r).acc] \in {"signed", "lapsed"}

NoProfile ==
    \A r \in Logins : login[r].pc \notin AtProfile => login[r].acc = NoAccount

RowsInv == /\ AddsAlone /\ LoginRow /\ PendingRow /\ OneRowPerMail
           /\ RowHasDir /\ CodeHeld /\ NoProfile

\* What most steps leave as it was.
SameRows ==
    \A a \in Profiles : /\ acct'[a].mail = acct[a].mail
                        /\ a \in Rows' <=> a \in Rows
DirsLast ==
    \A a \in Profiles :
       /\ dir[a] # "gone" => dir'[a] # "gone"
       /\ dir[a] \in {"signed", "lapsed"} => dir'[a] \in {"signed", "lapsed"}
NothingPends ==
    \A s \in Sessions :
       pending'[s].st # "none" => /\ pending[s].st # "none"
                                 /\ pending'[s].acc = pending[s].acc
                                 /\ pending'[s].mail = pending[s].mail
NothingBegins ==
    \A r \in Logins :
       \/ login'[r].pc \notin AtProfile /\ login'[r].acc = NoAccount
       \/ /\ login'[r].pc \in AtProfile /\ login[r].pc \in AtProfile
          /\ login'[r].acc = login[r].acc /\ login'[r].mail = login[r].mail
          /\ login'[r].pc \in {"connect", "signin"}
                => login[r].pc \in {"connect", "signin"}
CodesGoOn ==
    \A r \in Logins :
       login'[r].pc \in {"code", "confirm", "tidy"} =>
          /\ login[r].pc \in {"code", "confirm", "tidy"}
          /\ login'[r].sid = login[r].sid /\ pending'[login[r].sid].st # "none"
          /\ login'[r].pc = "confirm" =>
                \/ login[r].pc = "confirm"
                \/ dir'[pending[login[r].sid].acc] \in {"signed", "lapsed"}
AddsStayPending ==
    \A r \in Logins : login'[r].pc \in {"connect", "signin"} =>
                         acct'[login[r].acc].status = "pending"

LEMMA RowsKept ==
    ASSUME TypeInv, TypeInv', RowsInv, SameRows, DirsLast, NothingPends,
           NothingBegins, CodesGoOn, AddsStayPending
    PROVE  RowsInv'
<1>0. Rows \subseteq Profiles /\ Rows' \subseteq Profiles
  BY DEF Rows
<1>1. ASSUME NEW r \in Logins, login'[r].pc \in {"connect", "signin"}
      PROVE  AddAlone(r)'
  <2>1. /\ login[r].pc \in {"connect", "signin"}
        /\ login'[r].acc = login[r].acc
    BY <1>1 DEF NothingBegins, AtProfile
  <2>2. AddAlone(r) /\ login[r].acc \in Rows /\ login[r].acc \in Profiles
    BY <1>0, <2>1 DEF RowsInv, AddsAlone, AddAlone
  <2>3. login'[r].acc \in Rows' /\ acct'[login'[r].acc].status = "pending"
    BY <1>1, <2>1, <2>2 DEF SameRows, AddsStayPending
  <2>4. \A q \in Logins \ {r} : login'[q].acc # login'[r].acc
    BY <2>1, <2>2, LoginAssumption DEF NothingBegins, AddAlone
  <2>5. \A s \in Sessions : ~PendingOpen(s, login[r].acc)'
    BY <2>1, <2>2 DEF NothingPends, PendingOpen, AddAlone
  <2>6. \A s \in Sessions :
           ~(pending'[s].st # "none" /\ pending'[s].acc = login'[r].acc)
    BY <2>1, <2>2 DEF NothingPends, PendingOpen, AddAlone
  <2> QED
    BY <2>3, <2>4, <2>6 DEF AddAlone, PendingOpen
<1>2. LoginRow'
  BY <1>0 DEF RowsInv, LoginRow, NothingBegins, SameRows
<1>3. PendingRow'
  BY <1>0 DEF RowsInv, PendingRow, NothingPends, SameRows
<1>4. OneRowPerMail'
  BY <1>0 DEF RowsInv, OneRowPerMail, SameRows
<1>5. RowHasDir'
  BY <1>0 DEF RowsInv, RowHasDir, SameRows, DirsLast
<1>6. CodeHeld'
  <2> SUFFICES ASSUME NEW r \in Logins,
                      login'[r].pc \in {"code", "confirm", "tidy"}
               PROVE  /\ login'[r].sid \in Sessions
                      /\ pending'[login'[r].sid].st # "none"
                      /\ login'[r].pc = "confirm" =>
                           dir'[pending'[login'[r].sid].acc]
                              \in {"signed", "lapsed"}
    BY DEF CodeHeld, PageOf
  <2> DEFINE x == login[r].sid
  <2>1. /\ login[r].pc \in {"code", "confirm", "tidy"}
        /\ login'[r].sid = x /\ pending'[x].st # "none"
        /\ login'[r].pc = "confirm" =>
              \/ login[r].pc = "confirm"
              \/ dir'[pending[x].acc] \in {"signed", "lapsed"}
    BY DEF CodesGoOn
  <2>2. /\ x \in Sessions /\ pending[x].st # "none"
        /\ login[r].pc = "confirm" =>
              dir[pending[x].acc] \in {"signed", "lapsed"}
    BY <2>1 DEF RowsInv, CodeHeld, PageOf
  <2>3. pending'[x].acc = pending[x].acc /\ pending[x].acc \in Profiles
    BY <1>0, <2>1, <2>2 DEF NothingPends, RowsInv, PendingRow
  <2> QED
    BY <2>1, <2>2, <2>3 DEF DirsLast
<1>7. NoProfile'
  BY DEF NothingBegins, NoProfile
<1> QED
  BY <1>1, <1>2, <1>3, <1>4, <1>5, <1>6, <1>7 DEF RowsInv, AddsAlone

-----------------------------------------------------------------------------
(* The steps that keep the rows.                                            *)

LEMMA SameDirs == UNCHANGED dir => DirsLast
BY DEF DirsLast

LEMMA SamePending == UNCHANGED pending => NothingPends
BY DEF NothingPends

LEMMA SameAccounts == UNCHANGED acct => SameRows
BY DEF SameRows, Rows

LEMMA StatusKeepsRows ==
    ASSUME TypeInv, NEW a \in Rows, NEW st \in AccountStatus \ {"absent", "deleted"},
           SetStatus(a, st)
    PROVE  /\ SameRows
           /\ acct'[a].status = st
           /\ \A b \in Profiles \ {a} : acct'[b] = acct[b]
<1>1. a \in Profiles /\ acct[a].status \notin {"absent", "deleted"}
  BY DEF Rows
<1>2. /\ acct'[a].status = st /\ acct'[a].mail = acct[a].mail
      /\ \A b \in Profiles \ {a} : acct'[b] = acct[b]
  BY <1>1, Types DEF SetStatus, Account
<1>3. SameRows
  BY <1>1, <1>2 DEF SameRows, Rows
<1> QED
  BY <1>2, <1>3

LEMMA SignedLasts ==
    ASSUME TypeInv, NEW a \in Profiles, NEW d \in {"signed", "lapsed"},
           dir' = [dir EXCEPT ![a] = d]
    PROVE  DirsLast /\ dir'[a] = d
BY Types DEF DirsLast

\* A step that leaves the table of pending sessions as it is, for a request
\* that leaves, ...
LEMMA LeavingGoesOn ==
    ASSUME TypeInv, RowsInv, NEW r \in Logins, Leaves(r), UNCHANGED pending
    PROVE  NothingBegins /\ CodesGoOn
<1>1. /\ login'[r] = IdleLogin
      /\ \A q \in Logins \ {r} : login'[q] = login[q]
  BY Types DEF Leaves
<1>2. NothingBegins
  BY <1>1 DEF NothingBegins, RowsInv, NoProfile, IdleLogin, AtProfile
<1>3. CodesGoOn
  BY <1>1 DEF CodesGoOn, RowsInv, CodeHeld, PageOf, IdleLogin
<1> QED
  BY <1>2, <1>3

\* ... or for one that goes on.
LEMMA MovingGoesOn ==
    ASSUME TypeInv, RowsInv, NEW r \in Logins, NEW pc, Step(r, pc),
           UNCHANGED pending,
           pc \in AtProfile <=> login[r].pc \in AtProfile,
           pc \in {"connect", "signin"} => login[r].pc \in {"connect", "signin"},
           pc \in {"code", "confirm", "tidy"} =>
              login[r].pc \in {"code", "confirm", "tidy"},
           pc = "confirm" =>
              dir'[pending[login[r].sid].acc] \in {"signed", "lapsed"}
    PROVE  NothingBegins /\ CodesGoOn
<1>1. /\ login'[r].pc = pc /\ login'[r].acc = login[r].acc
      /\ login'[r].mail = login[r].mail /\ login'[r].sid = login[r].sid
      /\ \A q \in Logins \ {r} : login'[q] = login[q]
  BY Types DEF Step, LoginRecord
<1>2. NothingBegins
  BY <1>1 DEF NothingBegins, RowsInv, NoProfile
<1>3. CodesGoOn
  BY <1>1 DEF CodesGoOn, RowsInv, CodeHeld, PageOf
<1> QED
  BY <1>2, <1>3

LEMMA StillPending ==
    ASSUME RowsInv, NothingBegins,
           \A r \in Logins : login[r].pc \in {"connect", "signin"}
                             /\ login'[r].pc \in {"connect", "signin"} =>
              acct'[login[r].acc].status = acct[login[r].acc].status
    PROVE  AddsStayPending
BY DEF RowsInv, AddsAlone, AddAlone, NothingBegins, AddsStayPending, AtProfile

LEMMA OnlyLeaves ==
    ASSUME TypeInv, TypeInv', RowsInv, NEW r \in Logins, Leaves(r),
           UNCHANGED <<acct, dir, pending>>
    PROVE  RowsInv'
<1>1. NothingBegins /\ CodesGoOn
  BY LeavingGoesOn
<1>2. AddsStayPending
  BY <1>1, StillPending
<1> QED
  BY <1>1, <1>2, SameAccounts, SameDirs, SamePending, RowsKept

LEMMA OnlyMoves ==
    ASSUME TypeInv, TypeInv', RowsInv, NEW r \in Logins, NEW pc, Step(r, pc),
           UNCHANGED <<acct, dir, pending>>,
           <<login[r].pc, pc>> \in {<<"connect", "signin">>, <<"check", "probe">>,
              <<"probe", "again">>, <<"code", "tidy">>, <<"confirm", "tidy">>}
    PROVE  RowsInv'
<1>1. NothingBegins /\ CodesGoOn
  BY MovingGoesOn DEF AtProfile
<1>2. AddsStayPending
  BY <1>1, StillPending
<1> QED
  BY <1>1, <1>2, SameAccounts, SameDirs, SamePending, RowsKept

\* A request writes the status of its row and leaves.
LEMMA LeavesStatus ==
    ASSUME TypeInv, TypeInv', RowsInv, NEW r \in Logins, Leaves(r),
           UNCHANGED pending, DirsLast, login[r].pc \in AtProfile,
           NEW st \in AccountStatus \ {"absent", "deleted"},
           UNCHANGED acct \/ SetStatus(login[r].acc, st)
    PROVE  RowsInv'
<1>1. NothingBegins /\ CodesGoOn
  BY LeavingGoesOn
<1>2. login[r].acc \in Rows /\ login[r].acc \in Profiles
  BY DEF RowsInv, LoginRow, Rows
<1>3. login'[r] = IdleLogin
  BY Types DEF Leaves
<1>4. SameRows /\ \A b \in Profiles \ {login[r].acc} : acct'[b] = acct[b]
  BY <1>2, StatusKeepsRows, SameAccounts
<1>5. \A q \in Logins : login[q].pc \in {"connect", "signin"} /\ q # r =>
         login[q].acc \in Profiles \ {login[r].acc}
  BY DEF RowsInv, AddsAlone, AddAlone, Rows
<1>6. AddsStayPending
  BY <1>1, <1>3, <1>4, <1>5, StillPending DEF IdleLogin
<1> QED
  BY <1>1, <1>4, <1>6, SamePending, RowsKept

LEMMA CodeKeepsRows ==
    ASSUME TypeInv, TypeInv', RowsInv, NEW r \in Logins,
           \/ CodeTaken(r) \/ CodeRefused(r) \/ CodeRaises(r)
           \/ \E a \in Profiles : CodeConfirmed(r, a)
           \/ CodeWithoutRow(r) \/ CodeTidies(r)
    PROVE  RowsInv'
<1>1. CASE CodeTaken(r)
  <2> DEFINE a == PageOf(r).acc
  <2>1. a \in Rows /\ a \in Profiles /\ dir[a] # "gone"
    BY <1>1 DEF CodeTaken, RowsInv, CodeHeld, PendingRow, RowHasDir, PageOf, Rows
  <2>2. DirsLast /\ dir'[a] = "signed"
    BY <1>1, <2>1, SignedLasts DEF CodeTaken
  <2>3. NothingBegins /\ CodesGoOn
    BY <1>1, <2>2, MovingGoesOn DEF CodeTaken, PageOf, AtProfile
  <2>4. AddsStayPending
    BY <1>1, <2>3, StillPending DEF CodeTaken
  <2> QED
    BY <1>1, <2>2, <2>3, <2>4, SameAccounts, SamePending, RowsKept DEF CodeTaken
<1>2. CASE CodeRefused(r)
  BY <1>2, OnlyLeaves DEF CodeRefused
<1>3. CASE CodeRaises(r)
  BY <1>3, OnlyMoves DEF CodeRaises
<1>4. ASSUME NEW a \in Profiles, CodeConfirmed(r, a)  PROVE RowsInv'
  <2>1. SameRows /\ \A b \in Profiles \ {a} : acct'[b] = acct[b]
    BY <1>4, StatusKeepsRows DEF CodeConfirmed, AccountStatus
  <2>2. a = PageOf(r).acc /\ PendingOpen(login[r].sid, a)
        /\ login[r].sid \in Sessions
    BY <1>4 DEF CodeConfirmed, Confirms, RowsInv, CodeHeld, PendingRow,
                OneRowPerMail, PageOf, PendingOpen
  <2>3. NothingBegins /\ CodesGoOn
    BY <1>4, MovingGoesOn DEF CodeConfirmed, AtProfile
  <2>4. \A q \in Logins : login[q].pc \in {"connect", "signin"} =>
           login[q].acc \in Profiles \ {a}
    BY <2>2 DEF RowsInv, AddsAlone, AddAlone, Rows
  <2>5. AddsStayPending
    BY <2>1, <2>3, <2>4, StillPending
  <2> QED
    BY <1>4, <2>1, <2>3, <2>5, SameDirs, SamePending, RowsKept DEF CodeConfirmed
<1>5. CASE CodeWithoutRow(r)
  BY <1>5, OnlyLeaves DEF CodeWithoutRow
<1>6. CASE CodeTidies(r)
  <2>1. /\ login'[r] = IdleLogin
        /\ \A q \in Logins \ {r} : login'[q] = login[q]
    BY <1>6, Types DEF CodeTidies, Leaves
  <2>2. \A s \in Sessions :
          /\ pending'[s].acc = pending[s].acc
          /\ pending'[s].mail = pending[s].mail
          /\ pending'[s].st = "none" <=> pending[s].st = "none"
    BY <1>6, Types DEF CodeTidies, Cleanup, PendingRecord
  <2>3. NothingPends
    BY <2>2 DEF NothingPends
  <2>4. NothingBegins
    BY <2>1 DEF NothingBegins, RowsInv, NoProfile, IdleLogin, AtProfile
  <2>5. CodesGoOn
    BY <2>1, <2>2 DEF CodesGoOn, RowsInv, CodeHeld, PageOf, IdleLogin
  <2>6. AddsStayPending
    BY <1>6, <2>4, StillPending DEF CodeTidies
  <2> QED
    BY <1>6, <2>3, <2>4, <2>5, <2>6, SameAccounts, SameDirs, RowsKept
       DEF CodeTidies
<1> QED
  BY <1>1, <1>2, <1>3, <1>4, <1>5, <1>6

LEMMA AddRowKeepsRows ==
    ASSUME TypeInv, RowsInv, NEW r \in Logins, NEW a \in Profiles, AddRow(r, a)
    PROVE  RowsInv'
<1>1. a \notin Rows /\ Rows \subseteq Profiles
  BY DEF AddRow, Rows
<1>2. /\ acct'[a].status = "pending" /\ acct'[a].mail = login[r].mail
      /\ \A b \in Profiles \ {a} : acct'[b] = acct[b]
  BY Types DEF AddRow
<1>3. Rows' = Rows \cup {a}
  BY <1>2 DEF Rows
<1>4. dir'[a] = "blank" /\ \A b \in Profiles \ {a} : dir'[b] = dir[b]
  BY Types DEF AddRow
<1>5. /\ login'[r].pc = "connect" /\ login'[r].acc = a
      /\ login'[r].mail = login[r].mail
      /\ \A q \in Logins \ {r} : login'[q] = login[q]
  BY Types DEF AddRow, LoginRecord
<1>6. \A q \in Logins : login[q].acc # a
  BY <1>1, LoginAssumption DEF RowsInv, LoginRow, NoProfile
<1>7. \A s \in Sessions : pending[s].st # "none" => pending[s].acc # a
  BY <1>1 DEF RowsInv, PendingRow
<1>8. UNCHANGED pending
  BY DEF AddRow
<1>9. AddsAlone'
  <2>1. ASSUME NEW q \in Logins \ {r}, login[q].pc \in {"connect", "signin"}
        PROVE  AddAlone(q)'
    <3>1. AddAlone(q) /\ login[q].acc \in Profiles \ {a}
      BY <1>1, <1>6, <2>1 DEF RowsInv, AddsAlone, AddAlone
    <3> QED
      BY <1>2, <1>3, <1>5, <1>8, <3>1 DEF AddAlone, PendingOpen
  <2>2. AddAlone(r)'
    BY <1>2, <1>3, <1>5, <1>6, <1>7, <1>8 DEF AddAlone, PendingOpen
  <2> QED
    BY <1>5, <2>1, <2>2 DEF AddsAlone
<1>10. LoginRow'
  BY <1>1, <1>2, <1>3, <1>5, <1>6 DEF RowsInv, LoginRow
<1>11. PendingRow'
  BY <1>1, <1>2, <1>3, <1>7, <1>8 DEF RowsInv, PendingRow
<1>12. OneRowPerMail'
  <2>1. \A b \in Rows : acct[b].mail # login[r].mail
    BY DEF AddRow, WithMail
  <2> QED
    BY <1>1, <1>2, <1>3, <2>1 DEF RowsInv, OneRowPerMail
<1>13. RowHasDir'
  BY <1>1, <1>3, <1>4 DEF RowsInv, RowHasDir
<1>14. CodeHeld'
  BY <1>1, <1>4, <1>5, <1>7, <1>8 DEF RowsInv, CodeHeld, PendingRow, PageOf
<1>15. NoProfile'
  BY <1>5 DEF RowsInv, NoProfile, AtProfile
<1> QED
  BY <1>9, <1>10, <1>11, <1>12, <1>13, <1>14, <1>15 DEF RowsInv

\* A row that nobody is concerned with may go.
LEMMA RowGoes ==
    ASSUME TypeInv, RowsInv, NEW a \in Rows, SetStatus(a, "deleted"),
           dir' = [dir EXCEPT ![a] = "gone"], UNCHANGED pending,
           \A s \in Sessions : ~PendingOpen(s, a),
           \A q \in Logins : login'[q].acc # a
                              /\ (login'[q] = login[q] \/ login'[q] = IdleLogin)
    PROVE  RowsInv'
<1>1. a \in Profiles /\ Rows \subseteq Profiles
  BY DEF Rows
<1>2. /\ acct'[a].status = "deleted"
      /\ \A b \in Profiles \ {a} : acct'[b] = acct[b]
  BY <1>1, Types DEF SetStatus, Account
<1>3. Rows' = Rows \ {a}
  BY <1>1, <1>2 DEF Rows
<1>4. \A b \in Profiles \ {a} : dir'[b] = dir[b]
  BY Types
<1>5. AddsAlone'
  <2> SUFFICES ASSUME NEW q \in Logins, login'[q].pc \in {"connect", "signin"}
               PROVE  AddAlone(q)'
    BY DEF AddsAlone
  <2>1. login'[q] = login[q] /\ login[q].acc # a
    BY DEF IdleLogin
  <2>2. AddAlone(q) /\ login[q].acc \in Profiles \ {a}
    BY <1>1, <2>1 DEF RowsInv, AddsAlone, AddAlone
  <2>3. \A x \in Logins \ {q} : login'[x].acc # login'[q].acc
    BY <2>1, <2>2, LoginAssumption DEF AddAlone, IdleLogin
  <2> QED
    BY <1>2, <1>3, <2>1, <2>2, <2>3 DEF AddAlone, PendingOpen
<1>6. LoginRow'
  BY <1>1, <1>2, <1>3 DEF RowsInv, LoginRow, IdleLogin, AtProfile
<1>7. PendingRow'
  BY <1>1, <1>2, <1>3 DEF RowsInv, PendingRow, PendingOpen
<1>8. OneRowPerMail'
  BY <1>1, <1>2, <1>3 DEF RowsInv, OneRowPerMail
<1>9. RowHasDir'
  BY <1>1, <1>3, <1>4 DEF RowsInv, RowHasDir
<1>10. CodeHeld'
  <2> SUFFICES ASSUME NEW q \in Logins,
                      login'[q].pc \in {"code", "confirm", "tidy"}
               PROVE  /\ login'[q].sid \in Sessions
                      /\ pending[login'[q].sid].st # "none"
                      /\ login'[q].pc = "confirm" =>
                           dir'[pending[login'[q].sid].acc]
                              \in {"signed", "lapsed"}
    BY DEF CodeHeld, PageOf
  <2>1. login'[q] = login[q]
    BY DEF IdleLogin
  <2>2. /\ login[q].sid \in Sessions /\ pending[login[q].sid].st # "none"
        /\ login[q].pc = "confirm" =>
              dir[pending[login[q].sid].acc] \in {"signed", "lapsed"}
    BY <2>1 DEF RowsInv, CodeHeld, PageOf
  <2>3. pending[login[q].sid].acc \in Profiles \ {a}
    BY <1>1, <2>2 DEF RowsInv, PendingRow, PendingOpen
  <2> QED
    BY <1>4, <2>1, <2>2, <2>3
<1>11. NoProfile'
  BY DEF RowsInv, NoProfile, IdleLogin
<1> QED
  BY <1>5, <1>6, <1>7, <1>8, <1>9, <1>10, <1>11 DEF RowsInv

LEMMA HandOverKeepsRows ==
    ASSUME TypeInv, RowsInv, NEW r \in Logins, NEW s \in Sessions,
           login[r].pc \in {"signin", "probe", "again"},
           pending[s].st = "none", HandOver(r, s), UNCHANGED <<acct, dir>>,
           Leaves(r) \/ Step(r, "mark")
    PROVE  RowsInv'
<1> DEFINE b == login[r].acc
<1>1. b \in Rows /\ b \in Profiles /\ acct[b].mail = login[r].mail
  BY DEF RowsInv, LoginRow, AtProfile, Rows
<1>2. /\ pending'[s].acc = b /\ pending'[s].mail = login[r].mail
      /\ pending'[s].st = "stored"
      /\ \A t \in Sessions \ {s} : pending'[t] = pending[t]
  BY Types DEF HandOver
<1>3. Rows' = Rows
  BY DEF Rows
<1>4. /\ \/ login'[r] = IdleLogin
         \/ /\ login'[r].pc = "mark" /\ login'[r].acc = b
            /\ login'[r].mail = login[r].mail
      /\ \A q \in Logins \ {r} : login'[q] = login[q]
  BY Types DEF Leaves, Step, LoginRecord
<1>5. ASSUME NEW q \in Logins, login'[q].pc \in {"connect", "signin"}
      PROVE  AddAlone(q)'
  <2>1. q # r /\ login'[q] = login[q]
    BY <1>4, <1>5 DEF IdleLogin
  <2>2. AddAlone(q) /\ login[q].acc # b
    BY <1>5, <2>1 DEF RowsInv, AddsAlone, AddAlone
  <2>3. \A x \in Logins \ {q} : login'[x].acc # login[q].acc
    BY <1>4, <2>2, LoginAssumption DEF AddAlone, IdleLogin, Rows
  <2>4. \A t \in Sessions :
           ~(pending'[t].st # "none" /\ pending'[t].acc = login[q].acc)
    BY <1>2, <2>2 DEF AddAlone, PendingOpen
  <2> QED
    BY <1>3, <2>1, <2>2, <2>3, <2>4 DEF AddAlone, PendingOpen
<1>6. LoginRow'
  BY <1>1, <1>3, <1>4 DEF RowsInv, LoginRow, IdleLogin, AtProfile
<1>7. PendingRow'
  BY <1>1, <1>2, <1>3 DEF RowsInv, PendingRow
<1>8. OneRowPerMail' /\ RowHasDir'
  BY <1>3 DEF RowsInv, OneRowPerMail, RowHasDir
<1>9. CodeHeld'
  BY <1>2, <1>4 DEF RowsInv, CodeHeld, PageOf, IdleLogin
<1>10. NoProfile'
  BY <1>4 DEF RowsInv, NoProfile, IdleLogin, AtProfile
<1> QED
  BY <1>5, <1>6, <1>7, <1>8, <1>9, <1>10 DEF RowsInv, AddsAlone

LEMMA AddingKeepsRows ==
    ASSUME TypeInv, TypeInv', RowsInv, NEW r \in Logins,
           \/ \E a \in Profiles : AddRow(r, a)
           \/ AddRowTaken(r) \/ AddOpens(r) \/ AddFails(r)
           \/ AddCommitFails(r) \/ AddSucceeds(r)
           \/ \E s \in Sessions : AddNeedsCode(r, s)
    PROVE  RowsInv'
<1>1. CASE \E a \in Profiles : AddRow(r, a)
  BY <1>1, AddRowKeepsRows
<1>2. CASE AddRowTaken(r)
  BY <1>2, OnlyLeaves DEF AddRowTaken
<1>3. CASE AddOpens(r)
  BY <1>3, OnlyMoves DEF AddOpens
<1>4. ASSUME login[r].pc \in {"connect", "signin"}, Withdraw(r),
             UNCHANGED pending
      PROVE  RowsInv'
  <2> DEFINE b == login[r].acc
  <2>1. AddAlone(r) /\ b \in Rows /\ b # NoAccount
    BY <1>4, LoginAssumption DEF RowsInv, AddsAlone, AddAlone, Rows
  <2>2. /\ login'[r] = IdleLogin
        /\ \A q \in Logins \ {r} : login'[q] = login[q]
    BY <1>4, Types DEF Withdraw, Leaves
  <2>3. \A q \in Logins : login'[q].acc # b
                          /\ (login'[q] = login[q] \/ login'[q] = IdleLogin)
    BY <2>1, <2>2 DEF AddAlone, IdleLogin
  <2>4. SetStatus(b, "deleted") /\ dir' = [dir EXCEPT ![b] = "gone"]
    BY <1>4 DEF Withdraw
  <2> QED
    BY <1>4, <2>1, <2>3, <2>4, RowGoes DEF AddAlone
<1>5. CASE AddFails(r)
  BY <1>4, <1>5 DEF AddFails
<1>6. CASE AddCommitFails(r)
  BY <1>4, <1>6 DEF AddCommitFails
<1>7. CASE AddSucceeds(r)
  <2>1. login[r].acc \in Profiles /\ login[r].pc \in AtProfile
    BY <1>7 DEF AddSucceeds, TypeInv, AtProfile
  <2>2. DirsLast
    BY <1>7, <2>1, SignedLasts DEF AddSucceeds
  <2> QED
    BY <1>7, <2>1, <2>2, LeavesStatus DEF AddSucceeds, AccountStatus
<1>8. ASSUME NEW s \in Sessions, AddNeedsCode(r, s)  PROVE RowsInv'
  BY <1>8, HandOverKeepsRows DEF AddNeedsCode
<1> QED
  BY <1>1, <1>2, <1>3, <1>5, <1>6, <1>7, <1>8

LEMMA VerifyingKeepsRows ==
    ASSUME TypeInv, TypeInv', RowsInv, NEW r \in Logins,
           \/ VerifyBusy(r) \/ VerifyOpens(r) \/ VerifyEnds(r)
           \/ VerifyLogsIn(r) \/ VerifyRefreshes(r) \/ VerifyRefused(r)
           \/ VerifyCommitFails(r) \/ VerifyMarks(r)
           \/ \E s \in Sessions : VerifyNeedsCode(r, s)
    PROVE  RowsInv'
<1>1. CASE VerifyBusy(r)
  BY <1>1, OnlyLeaves DEF VerifyBusy
<1>2. CASE VerifyOpens(r)
  BY <1>2, OnlyMoves DEF VerifyOpens
<1>3. CASE VerifyEnds(r)
  BY <1>3, OnlyLeaves DEF VerifyEnds
<1>4. CASE VerifyLogsIn(r)
  BY <1>4, OnlyMoves DEF VerifyLogsIn
<1>5. CASE VerifyRefreshes(r)
  <2>1. login[r].acc \in Profiles /\ login[r].pc \in AtProfile
    BY <1>5 DEF VerifyRefreshes, TypeInv, AtProfile
  <2>2. DirsLast
    BY <1>5, <2>1, SignedLasts DEF VerifyRefreshes
  <2> QED
    BY <1>5, <2>1, <2>2, LeavesStatus
       DEF VerifyRefreshes, AccountStatus, SetStatus
<1>6. CASE VerifyRefused(r)
  <2>1. login[r].pc \in AtProfile
    BY <1>6 DEF VerifyRefused, AtProfile
  <2> QED
    BY <1>6, <2>1, SameDirs, LeavesStatus
       DEF VerifyRefused, AccountStatus, SetStatus
<1>7. CASE VerifyCommitFails(r)
  BY <1>7, OnlyLeaves DEF VerifyCommitFails
<1>8. CASE VerifyMarks(r)
  <2>1. login[r].pc \in AtProfile
    BY <1>8 DEF VerifyMarks, AtProfile
  <2> QED
    BY <1>8, <2>1, SameDirs, LeavesStatus
       DEF VerifyMarks, AccountStatus, SetStatus
<1>9. ASSUME NEW s \in Sessions, VerifyNeedsCode(r, s)  PROVE RowsInv'
  BY <1>9, HandOverKeepsRows DEF VerifyNeedsCode
<1> QED
  BY <1>1, <1>2, <1>3, <1>4, <1>5, <1>6, <1>7, <1>8, <1>9

LEMMA RequestKeepsRows ==
    ASSUME TypeInv, TypeInv', RowsInv, NEW r \in Logins, LoginRequest(r)
    PROVE  RowsInv'
<1>1. ASSUME NEW e \in Emails, AddAccount(r, e)  PROVE RowsInv'
  <2>1. /\ login'[r].pc = "insert" /\ login'[r].acc = login[r].acc
        /\ login[r].pc = "idle"
        /\ \A q \in Logins \ {r} : login'[q] = login[q]
    BY <1>1, Types DEF AddAccount, LoginRecord
  <2>2. UNCHANGED <<acct, dir, pending>>
    BY <1>1 DEF AddAccount, LoginUser
  <2>3. NothingBegins
    BY <2>1 DEF NothingBegins, RowsInv, NoProfile, AtProfile
  <2>4. CodesGoOn
    BY <2>1, <2>2 DEF CodesGoOn, RowsInv, CodeHeld, PageOf
  <2>5. AddsStayPending
    BY <2>2, <2>3, StillPending
  <2> QED
    BY <2>2, <2>3, <2>4, <2>5, SameAccounts, SameDirs, SamePending, RowsKept
<1>2. ASSUME NEW a \in Profiles, VerifyAccount(r, a)  PROVE RowsInv'
  <2>1. /\ login'[r].pc = "check" /\ login'[r].acc = a
        /\ login'[r].mail = acct[a].mail
        /\ \A q \in Logins \ {r} : login'[q] = login[q]
    BY <1>2, Types DEF VerifyAccount, LoginRecord
  <2>2. /\ UNCHANGED <<acct, dir, pending>>
        /\ a \in Rows /\ acct[a].status # "pending"
    BY <1>2 DEF VerifyAccount, LoginUser
  <2>3. Rows' = Rows
    BY <2>2 DEF Rows
  <2>4. AddsAlone'
    BY <2>1, <2>2, <2>3 DEF RowsInv, AddsAlone, AddAlone, PendingOpen
  <2>5. LoginRow'
    BY <2>1, <2>2, <2>3 DEF RowsInv, LoginRow
  <2>6. PendingRow' /\ OneRowPerMail' /\ RowHasDir'
    BY <2>2, <2>3 DEF RowsInv, PendingRow, OneRowPerMail, RowHasDir
  <2>7. CodeHeld' /\ NoProfile'
    BY <2>1, <2>2 DEF RowsInv, CodeHeld, NoProfile, PageOf, AtProfile
  <2> QED
    BY <2>4, <2>5, <2>6, <2>7 DEF RowsInv
<1>3. ASSUME NEW s \in Sessions, SubmitCode(r, s)  PROVE RowsInv'
  <2>1. /\ login'[r].pc = "code" /\ login'[r].acc = login[r].acc
        /\ login'[r].sid = s /\ login[r].pc = "idle"
        /\ \A q \in Logins \ {r} : login'[q] = login[q]
    BY <1>3, Types DEF SubmitCode, LoginRecord
  <2>2. UNCHANGED <<acct, dir, pending>> /\ pending[s].st = "stored"
    BY <1>3 DEF SubmitCode, LoginUser
  <2>3. Rows' = Rows
    BY <2>2 DEF Rows
  <2>4. AddsAlone'
    BY <2>1, <2>2, <2>3 DEF RowsInv, AddsAlone, AddAlone, PendingOpen
  <2>5. LoginRow' /\ NoProfile'
    BY <2>1, <2>2, <2>3 DEF RowsInv, LoginRow, NoProfile, AtProfile
  <2>6. PendingRow' /\ OneRowPerMail' /\ RowHasDir'
    BY <2>2, <2>3 DEF RowsInv, PendingRow, OneRowPerMail, RowHasDir
  <2>7. CodeHeld'
    BY <2>1, <2>2 DEF RowsInv, CodeHeld, PageOf
  <2> QED
    BY <2>4, <2>5, <2>6, <2>7 DEF RowsInv
<1>4. ASSUME NEW s \in Sessions, SubmitLate(r, s)  PROVE RowsInv'
  <2>1. \A t \in Sessions :
          /\ pending'[t].acc = pending[t].acc
          /\ pending'[t].mail = pending[t].mail
          /\ pending'[t].st = "none" <=> pending[t].st = "none"
    BY <1>4, Types DEF SubmitLate, PendingRecord
  <2>2. UNCHANGED <<acct, dir, login>>
    BY <1>4 DEF SubmitLate
  <2>3. NothingPends
    BY <2>1 DEF NothingPends
  <2>4. NothingBegins
    BY <2>2 DEF NothingBegins, RowsInv, NoProfile
  <2>5. CodesGoOn
    BY <2>1, <2>2 DEF CodesGoOn, RowsInv, CodeHeld, PageOf
  <2>6. AddsStayPending
    BY <2>2, <2>4, StillPending
  <2> QED
    BY <2>2, <2>3, <2>4, <2>5, <2>6, SameAccounts, SameDirs, RowsKept
<1> QED
  BY <1>1, <1>2, <1>3, <1>4 DEF LoginRequest

\* Steps of nobody's request.
LEMMA SameLogins ==
    ASSUME TypeInv, TypeInv', RowsInv, UNCHANGED login, SameRows, DirsLast,
           \A s \in Sessions :
              /\ pending'[s].acc = pending[s].acc
              /\ pending'[s].mail = pending[s].mail
              /\ pending'[s].st = "none" <=> pending[s].st = "none",
           AddsStayPending
    PROVE  RowsInv'
<1>1. NothingPends
  BY DEF NothingPends
<1>2. NothingBegins
  BY DEF NothingBegins, RowsInv, NoProfile
<1>3. CodesGoOn
  BY DEF CodesGoOn, RowsInv, CodeHeld, PageOf
<1> QED
  BY <1>1, <1>2, <1>3, RowsKept

LEMMA LoginsAsBefore ==
    ASSUME TypeInv, TypeInv', RowsInv, UNCHANGED <<acct, dir, login, pending>>
    PROVE  RowsInv'
<1>1. AddsStayPending
  BY DEF AddsStayPending, RowsInv, AddsAlone, AddAlone
<1> QED
  BY <1>1, SameAccounts, SameDirs, SameLogins

LEMMA EditKeepsRows ==
    ASSUME ~EditsRace, TypeInv, TypeInv', RowsInv, NEW a \in Profiles,
           AccountEdit(a) \/ SessionLapses(a) \/ LoginLockExpires(a)
    PROVE  RowsInv'
<1>0. ASSUME ~UnderWay(a)
      PROVE  /\ \A r \in Logins : login[r].acc # a
             /\ \A s \in Sessions : ~PendingOpen(s, a)
  BY <1>0 DEF UnderWay
<1>1. CASE DeleteAccount(a)
  BY <1>0, <1>1, RowGoes DEF DeleteAccount, LoginUser
<1>2. CASE ChangePassword(a)
  <2>1. /\ SameRows /\ acct'[a].status = "pending"
        /\ \A b \in Profiles \ {a} : acct'[b] = acct[b]
    BY <1>2, StatusKeepsRows DEF ChangePassword, AccountStatus
  <2>2. AddsStayPending
    BY <1>2, <2>1
       DEF ChangePassword, AddsStayPending, RowsInv, AddsAlone, AddAlone, Rows
  <2> QED
    BY <1>2, <2>1, <2>2, SameDirs, SameLogins DEF ChangePassword, LoginUser
<1>3. CASE AdminSuspends(a)
  <2>1. /\ SameRows /\ \A b \in Profiles \ {a} : acct'[b] = acct[b]
    BY <1>3, StatusKeepsRows DEF AdminSuspends, AccountStatus
  <2>2. AddsStayPending
    BY <1>0, <1>3, <2>1
       DEF AdminSuspends, AddsStayPending, RowsInv, AddsAlone, AddAlone, Rows
  <2> QED
    BY <1>3, <2>1, <2>2, SameDirs, SameLogins DEF AdminSuspends, LoginUser
<1>4. ASSUME NEW e \in Emails, RenameAccount(a, e)  PROVE RowsInv'
  <2>0. /\ UNCHANGED <<dir, login, pending>> /\ Rows \subseteq Profiles
        /\ \A r \in Logins : login[r].acc # a
        /\ \A s \in Sessions : ~PendingOpen(s, a)
    BY <1>0, <1>4 DEF RenameAccount, LoginUser, Rows
  <2>1. /\ acct'[a].mail = e /\ acct'[a].status = acct[a].status
        /\ \A b \in Profiles \ {a} : acct'[b] = acct[b]
    BY <1>4, Types DEF RenameAccount, Account
  <2>2. Rows' = Rows
    BY <2>1 DEF Rows
  <2>3. AddsAlone'
    <3> SUFFICES ASSUME NEW r \in Logins, login[r].pc \in {"connect", "signin"}
                 PROVE  AddAlone(r)'
      BY <2>0 DEF AddsAlone
    <3>1. AddAlone(r) /\ login[r].acc \in Profiles \ {a}
      BY <2>0 DEF RowsInv, AddsAlone, AddAlone
    <3> QED
      BY <2>0, <2>1, <2>2, <3>1 DEF AddAlone, PendingOpen
  <2>4. LoginRow'
    BY <2>0, <2>1, <2>2 DEF RowsInv, LoginRow
  <2>5. PendingRow'
    BY <2>0, <2>1, <2>2 DEF RowsInv, PendingRow, PendingOpen
  <2>6. OneRowPerMail'
    <3>1. \A b \in Rows : acct[b].mail # e
      BY <1>4 DEF RenameAccount, WithMail
    <3> QED
      BY <2>0, <2>1, <2>2, <3>1 DEF RowsInv, OneRowPerMail
  <2>7. RowHasDir' /\ CodeHeld' /\ NoProfile'
    BY <2>0, <2>2 DEF RowsInv, RowHasDir, CodeHeld, NoProfile, PageOf
  <2> QED
    BY <2>3, <2>4, <2>5, <2>6, <2>7 DEF RowsInv
<1>5. CASE SessionLapses(a)
  <2>1. DirsLast
    BY <1>5, SignedLasts DEF SessionLapses
  <2>2. AddsStayPending
    BY <1>5 DEF SessionLapses, AddsStayPending, RowsInv, AddsAlone, AddAlone
  <2> QED
    BY <1>5, <2>1, <2>2, SameAccounts, SameLogins DEF SessionLapses
<1>6. CASE LoginLockExpires(a)
  BY <1>6, LoginsAsBefore DEF LoginLockExpires
<1> QED
  BY <1>1, <1>2, <1>3, <1>4, <1>5, <1>6 DEF AccountEdit

LEMMA PendingKeepsRows ==
    ASSUME TypeInv, TypeInv', RowsInv, NEW s \in Sessions,
           PeriodicCleanup(s) \/ PendingCloses(s) \/ PendingAges(s)
    PROVE  RowsInv'
<1>0. UNCHANGED <<acct, dir, login>> /\ AddsStayPending
  BY DEF PeriodicCleanup, PendingCloses, PendingAges, AddsStayPending, RowsInv,
         AddsAlone, AddAlone
<1>1. CASE PeriodicCleanup(s) \/ PendingAges(s)
  <2>1. \A t \in Sessions :
          /\ pending'[t].acc = pending[t].acc
          /\ pending'[t].mail = pending[t].mail
          /\ pending'[t].st = "none" <=> pending[t].st = "none"
    BY <1>1, Types DEF PeriodicCleanup, PendingAges, Cleanup, PendingRecord
  <2> QED
    BY <1>0, <2>1, SameAccounts, SameDirs, SameLogins
<1>2. CASE PendingCloses(s)
  <2>1. /\ pending'[s].st = "none"
        /\ \A t \in Sessions \ {s} : pending'[t] = pending[t]
    BY <1>2, Types DEF PendingCloses, NoPending
  <2>2. NothingPends
    BY <2>1 DEF NothingPends
  <2>3. NothingBegins
    BY <1>0 DEF NothingBegins, RowsInv, NoProfile
  <2>4. CodesGoOn
    BY <1>0, <1>2, <2>1 DEF CodesGoOn, RowsInv, CodeHeld, PageOf, PendingCloses
  <2> QED
    BY <1>0, <2>2, <2>3, <2>4, SameAccounts, SameDirs, RowsKept
<1> QED
  BY <1>1, <1>2

LEMMA RestartKeepsRows ==
    ASSUME TypeInv, TypeInv', RowsInv, LoginApiRestarts
    PROVE  RowsInv'
<1>1. NothingPends /\ NothingBegins /\ CodesGoOn /\ AddsStayPending
  BY DEF LoginApiRestarts, NothingPends, NothingBegins, CodesGoOn,
         AddsStayPending, IdleLogin, NoPending, AtProfile
<1> QED
  BY <1>1, SameAccounts, SameDirs, RowsKept DEF LoginApiRestarts

LEMMA RowsStep ==
    ASSUME ~EditsRace, TypeInv, TypeInv', RowsInv, [LoginsNext]_loginVars
    PROVE  RowsInv'
<1>1. ASSUME NEW r \in Logins, LoginStep(r)  PROVE RowsInv'
  BY <1>1, AddingKeepsRows, VerifyingKeepsRows, CodeKeepsRows DEF LoginStep
<1>2. ASSUME NEW r \in Logins, LoginRequest(r)  PROVE RowsInv'
  BY <1>2, RequestKeepsRows
<1>3. ASSUME NEW a \in Profiles,
             AccountEdit(a) \/ SessionLapses(a) \/ LoginLockExpires(a)
      PROVE  RowsInv'
  BY <1>3, EditKeepsRows
<1>4. ASSUME NEW s \in Sessions,
             PeriodicCleanup(s) \/ PendingCloses(s) \/ PendingAges(s)
      PROVE  RowsInv'
  BY <1>4, PendingKeepsRows
<1>5. ASSUME NEW o \in Others,
             OtherCloses(o) \/ \E a \in Profiles : OtherOpens(o, a)
      PROVE  RowsInv'
  BY <1>5, LoginsAsBefore DEF OtherCloses, OtherOpens
<1>6. CASE LoginApiRestarts
  BY <1>6, RestartKeepsRows
<1>7. CASE UNCHANGED loginVars
  BY <1>7, LoginsAsBefore DEF loginVars
<1> QED
  BY <1>1, <1>2, <1>3, <1>4, <1>5, <1>6, <1>7 DEF LoginsNext

LEMMA RowsInit == LoginsInit => RowsInv
BY DEF LoginsInit, RowsInv, AddsAlone, LoginRow, PendingRow, OneRowPerMail,
       RowHasDir, CodeHeld, NoProfile, Rows, IdleLogin, NoPending, AtProfile

-----------------------------------------------------------------------------
(* Only a profile that has signed in makes its account active.              *)

ActiveIsSigned ==
    \A a \in Profiles : acct'[a].status = "active" /\ acct[a].status # "active"
                          => dir'[a] \in {"signed", "lapsed"}

LEMMA OtherStatus ==
    ASSUME TypeInv, NEW a, NEW st, SetStatus(a, st),
           st = "active" /\ a \in Profiles => dir'[a] \in {"signed", "lapsed"}
    PROVE  ActiveIsSigned
BY Types DEF SetStatus, ActiveIsSigned, Account

LEMMA StepActivates ==
    ASSUME TypeInv, RowsInv, NEW r \in Logins, LoginStep(r)
    PROVE  ActiveIsSigned
<1>0. UNCHANGED acct => ActiveIsSigned
  BY DEF ActiveIsSigned
<1>1. ASSUME NEW a \in Profiles, AddRow(r, a)  PROVE ActiveIsSigned
  BY <1>1, Types DEF AddRow, ActiveIsSigned
<1>2. ASSUME NEW a \in Profiles, CodeConfirmed(r, a)  PROVE ActiveIsSigned
  <2>1. a = PageOf(r).acc
    BY <1>2 DEF CodeConfirmed, Confirms, RowsInv, CodeHeld, PendingRow,
                OneRowPerMail, PageOf
  <2>2. dir'[a] \in {"signed", "lapsed"}
    BY <1>2, <2>1 DEF CodeConfirmed, RowsInv, CodeHeld
  <2> QED
    BY <1>2, <2>2, OtherStatus DEF CodeConfirmed
<1>3. CASE AddFails(r) \/ AddCommitFails(r)
  BY <1>3, OtherStatus DEF AddFails, AddCommitFails, Withdraw
<1>4. CASE AddSucceeds(r)
  <2>1. login[r].acc \in Profiles => dir'[login[r].acc] = "signed"
    BY <1>4, Types DEF AddSucceeds
  <2> QED
    BY <1>4, <2>1, OtherStatus DEF AddSucceeds
<1>5. CASE VerifyRefreshes(r)
  <2>1. login[r].acc \in Profiles => dir'[login[r].acc] = "signed"
    BY <1>5, Types DEF VerifyRefreshes
  <2> QED
    BY <1>0, <1>5, <2>1, OtherStatus DEF VerifyRefreshes, SetStatus
<1>6. CASE VerifyRefused(r)
  BY <1>0, <1>6, OtherStatus DEF VerifyRefused, SetStatus
<1>7. CASE VerifyMarks(r)
  BY <1>0, <1>7, OtherStatus DEF VerifyMarks, SetStatus
<1>8. CASE \/ AddRowTaken(r) \/ AddOpens(r) \/ VerifyBusy(r) \/ VerifyOpens(r)
           \/ VerifyEnds(r) \/ VerifyLogsIn(r) \/ VerifyCommitFails(r)
           \/ CodeTaken(r) \/ CodeRefused(r) \/ CodeRaises(r)
           \/ CodeWithoutRow(r) \/ CodeTidies(r)
  BY <1>0, <1>8
     DEF AddRowTaken, AddOpens, VerifyBusy, VerifyOpens, VerifyEnds,
         VerifyLogsIn, VerifyCommitFails, CodeTaken, CodeRefused, CodeRaises,
         CodeWithoutRow, CodeTidies
<1>9. ASSUME NEW s \in Sessions, AddNeedsCode(r, s) \/ VerifyNeedsCode(r, s)
      PROVE  ActiveIsSigned
  BY <1>0, <1>9 DEF AddNeedsCode, VerifyNeedsCode
<1> QED
  BY <1>1, <1>2, <1>3, <1>4, <1>5, <1>6, <1>7, <1>8, <1>9 DEF LoginStep

LEMMA NextActivates ==
    ASSUME TypeInv, RowsInv, [LoginsNext]_loginVars
    PROVE  [ActiveIsSigned]_loginVars
<1>0. UNCHANGED acct => ActiveIsSigned
  BY DEF ActiveIsSigned
<1>1. ASSUME NEW r \in Logins, LoginStep(r)  PROVE ActiveIsSigned
  BY <1>1, StepActivates
<1>2. ASSUME NEW r \in Logins, LoginRequest(r)  PROVE ActiveIsSigned
  BY <1>0, <1>2
     DEF LoginRequest, AddAccount, VerifyAccount, SubmitCode, SubmitLate
<1>3. ASSUME NEW a \in Profiles,
             AccountEdit(a) \/ SessionLapses(a) \/ LoginLockExpires(a)
      PROVE  ActiveIsSigned
  <2>1. CASE DeleteAccount(a) \/ ChangePassword(a) \/ AdminSuspends(a)
    BY <2>1, OtherStatus DEF DeleteAccount, ChangePassword, AdminSuspends
  <2>2. ASSUME NEW e \in Emails, RenameAccount(a, e)  PROVE ActiveIsSigned
    BY <2>2, Types DEF RenameAccount, ActiveIsSigned, Account
  <2>3. CASE SessionLapses(a) \/ LoginLockExpires(a)
    BY <1>0, <2>3 DEF SessionLapses, LoginLockExpires
  <2> QED
    BY <1>3, <2>1, <2>2, <2>3 DEF AccountEdit
<1>4. ASSUME NEW s \in Sessions,
             PeriodicCleanup(s) \/ PendingCloses(s) \/ PendingAges(s)
      PROVE  ActiveIsSigned
  BY <1>0, <1>4 DEF PeriodicCleanup, PendingCloses, PendingAges
<1>5. ASSUME NEW o \in Others,
             OtherCloses(o) \/ \E a \in Profiles : OtherOpens(o, a)
      PROVE  ActiveIsSigned
  BY <1>0, <1>5 DEF OtherCloses, OtherOpens
<1>6. CASE LoginApiRestarts
  BY <1>0, <1>6 DEF LoginApiRestarts
<1> QED
  BY <1>1, <1>2, <1>3, <1>4, <1>5, <1>6 DEF LoginsNext

\* While rows are not deleted, renamed or suspended under a login, an account
\* becomes active only when its own profile has signed in: a code typed for
\* one row brings no other one to life.
THEOREM ActiveHasSignedInCorrect ==
    ASSUME ~EditsRace
    PROVE  LoginsSpec => ActiveHasSignedIn
<1>1. TypeInv /\ RowsInv /\ [LoginsNext]_loginVars
         => TypeInv' /\ RowsInv' /\ [ActiveIsSigned]_loginVars
  BY TypeStep, RowsStep, NextActivates
<1>2. LoginsSpec => [][ActiveIsSigned]_loginVars
  BY <1>1, TypeInit, RowsInit, PTL DEF LoginsSpec
<1> QED
  BY <1>2 DEF ActiveHasSignedIn, ActiveIsSigned

-----------------------------------------------------------------------------
(* The scans of the feed (FeedScans).                                        *)

FeedJobRow ==
    [st: {"absent", "draft", "active", "paused", "deleted"},
     due: {"none", "later", "now"}, left: {"none", "zero", "some"},
     crit: FeedCriteria]
FeedResults == [FeedPosts -> {"none", "shown", "dismissed"}]
FeedPcs == {"idle", "slot", "counted", "lock", "scan", "store", "save", "free"}
FeedWork == [pc: FeedPcs, msg: SUBSET FeedMessages, got: SUBSET FeedPosts,
             n: Int]

LEMMA FeedTypes ==
    FeedTypeOK <=>
       /\ feedJob \in [FeedJobs -> FeedJobRow]
       /\ feedRow \in [FeedJobs -> FeedResults]
       /\ feedApplied \in [FeedJobs -> SUBSET FeedPosts]
       /\ feedLease \in [FeedJobs -> FeedTokens \cup {NoFeedToken}]
       /\ feedMsg \subseteq FeedMessages /\ feedFound \subseteq FeedJobs
       /\ slotCount \in Int /\ feedTask \in [FeedWorkers -> FeedWork]
BY DEF FeedTypeOK, FeedJobRow, FeedResults, FeedPcs, FeedWork

LEMMA FeedTypesNext ==
    FeedTypeOK' <=>
       /\ feedJob' \in [FeedJobs -> FeedJobRow]
       /\ feedRow' \in [FeedJobs -> FeedResults]
       /\ feedApplied' \in [FeedJobs -> SUBSET FeedPosts]
       /\ feedLease' \in [FeedJobs -> FeedTokens \cup {NoFeedToken}]
       /\ feedMsg' \subseteq FeedMessages /\ feedFound' \subseteq FeedJobs
       /\ slotCount' \in Int /\ feedTask' \in [FeedWorkers -> FeedWork]
BY DEF FeedTypeOK, FeedJobRow, FeedResults, FeedPcs, FeedWork

\* What a scan is about to store matches the criteria of now.
Matches(j, P) == \A p \in P : <<p, feedJob[j].crit>> \in FeedMatches
SavedMatch ==
    \A w \in FeedWorkers, j \in FeedJobs :
       feedTask[w].pc = "save" /\ FeedJobOf(w) = j =>
          Matches(j, feedTask[w].got)

\* Everybody who has been counted still is: the counter is no less than that,
\* and no more than the limit are let in or about to be.
Counted == {w \in FeedWorkers : feedTask[w].pc \in {"counted", "lock", "scan"}}
LetIn == {w \in FeedWorkers :
            \/ feedTask[w].pc \in {"lock", "scan"}
            \/ feedTask[w].pc = "counted" /\ feedTask[w].n <= MaxSlots}
SlotInv == /\ Cardinality(Counted) <= slotCount
           /\ Cardinality(LetIn) <= MaxSlots

FeedKeeps ==
    /\ FeedTypeOK'
    /\ ~CriteriaRace /\ RowsMatchCriteria /\ SavedMatch
          => RowsMatchCriteria' /\ SavedMatch'
    /\ ~SlowFeedScans /\ IsFiniteSet(FeedWorkers) /\ SlotInv => SlotInv'

-----------------------------------------------------------------------------
(* Rows and their criteria.                                                  *)

SameCriteria == \A j \in FeedJobs : feedJob'[j].crit = feedJob[j].crit
RowsGrow ==
    \A j \in FeedJobs : \A p \in FeedPosts :
       feedRow'[j][p] # "none" =>
          feedRow[j][p] # "none" \/ <<p, feedJob[j].crit>> \in FeedMatches

LEMMA RowsKeep ==
    ASSUME SameCriteria, RowsGrow, RowsMatchCriteria, SavedMatch,
           \A w \in FeedWorkers :
              \/ feedTask'[w] = feedTask[w]
              \/ feedTask'[w].pc # "save"
              \/ /\ feedTask'[w].msg = feedTask[w].msg
                 /\ FeedJobOf(w) \in FeedJobs =>
                       Matches(FeedJobOf(w), feedTask'[w].got)
    PROVE  RowsMatchCriteria' /\ SavedMatch'
<1>1. RowsMatchCriteria'
  BY DEF SameCriteria, RowsGrow, RowsMatchCriteria
<1>2. ASSUME NEW w \in FeedWorkers, NEW j \in FeedJobs,
             feedTask'[w].pc = "save", FeedJobOf(w)' = j
      PROVE  Matches(j, feedTask[w].got)'
  <2>1. FeedJobOf(w) = j
    BY <1>2 DEF FeedJobOf
  <2>2. Matches(j, feedTask'[w].got)
    BY <1>2, <2>1 DEF SavedMatch
  <2> QED
    BY <2>2 DEF Matches, SameCriteria
<1> QED
  BY <1>1, <1>2 DEF SavedMatch

LEMMA SameSlots ==
    ASSUME SlotInv, UNCHANGED slotCount,
           \A w \in FeedWorkers :
              /\ feedTask'[w].pc = feedTask[w].pc
              /\ feedTask'[w].n = feedTask[w].n
    PROVE  SlotInv'
<1>1. Counted' = Counted /\ LetIn' = LetIn
  BY DEF Counted, LetIn
<1> QED
  BY <1>1 DEF SlotInv

\* Requests, Beat and time leave the workers and the slots alone.
LEMMA TasksRest ==
    ASSUME FeedTypeOK, FeedTypeOK', SameCriteria, RowsGrow,
           UNCHANGED <<slotCount, feedTask>>
    PROVE  FeedKeeps
BY RowsKeep, SameSlots DEF FeedKeeps

-----------------------------------------------------------------------------
(* Requests.                                                                 *)

LEMMA JobTyped ==
    ASSUME FeedTypeOK, NEW j \in FeedJobs, NEW x \in FeedJobRow,
           x.crit = feedJob[j].crit, feedJob' = [feedJob EXCEPT ![j] = x]
    PROVE  feedJob' \in [FeedJobs -> FeedJobRow] /\ SameCriteria
BY FeedTypes DEF SameCriteria

LEMMA MessageTyped ==
    ASSUME NEW j \in FeedJobs
    PROVE  /\ ForceMessage(j) \in FeedMessages
           /\ \A t \in FeedTokens :
                 [job |-> j, tok |-> t, force |-> FALSE] \in FeedMessages
BY DEF ForceMessage, FeedMessages

LEMMA LeaseTyped ==
    ASSUME FeedTypeOK, NEW j,
           \/ feedLease' = [feedLease EXCEPT ![j] = NoFeedToken]
           \/ \E t : ReleaseFeedLease(j, t)
           \/ \E t \in FeedTokens : feedLease' = [feedLease EXCEPT ![j] = t]
    PROVE  feedLease' \in [FeedJobs -> FeedTokens \cup {NoFeedToken}]
BY FeedTypes DEF ReleaseFeedLease

\* A row changes to another word, or to none.
LEMMA RowTyped ==
    ASSUME FeedTypeOK, NEW j \in FeedJobs, NEW x \in FeedResults,
           feedRow' = [feedRow EXCEPT ![j] = x],
           \A p \in FeedPosts : x[p] # "none" =>
              feedRow[j][p] # "none" \/ <<p, feedJob[j].crit>> \in FeedMatches
    PROVE  feedRow' \in [FeedJobs -> FeedResults] /\ RowsGrow
BY FeedTypes DEF RowsGrow

LEMMA RequestFrame ==
    ASSUME NEW j, FeedRequest(j)
    PROVE  UNCHANGED <<slotCount, feedFound, feedTask>>
BY DEF FeedRequest, CreateFeedJob, ActivateFeedJob, PauseFeedJob,
   EditFeedCriteria, PatchFeedStatus, DeleteFeedJob, ScanFeedNow,
   DismissResult, RestoreResult, MarkApplied, DeleteApplied, FeedUser

\* Requests about the job.
LEMMA JobRequestKeeps ==
    ASSUME FeedTypeOK, NEW j \in FeedJobs, FeedRequest(j),
           \/ CreateFeedJob(j) \/ ActivateFeedJob(j) \/ PauseFeedJob(j)
           \/ ScanFeedNow(j)
           \/ \E st \in {"active", "paused", "draft"} : PatchFeedStatus(j, st)
    PROVE  FeedKeeps
<1>1. UNCHANGED <<slotCount, feedFound, feedTask, feedRow, feedApplied>>
  BY RequestFrame DEF CreateFeedJob, ActivateFeedJob, PauseFeedJob,
     ScanFeedNow, PatchFeedStatus
<1>2. feedLease' \in [FeedJobs -> FeedTokens \cup {NoFeedToken}]
  BY LeaseTyped, FeedTypes DEF CreateFeedJob, ActivateFeedJob, PauseFeedJob,
     ScanFeedNow, PatchFeedStatus
<1>3. feedMsg' \subseteq FeedMessages
  BY MessageTyped, FeedTypes DEF CreateFeedJob, ActivateFeedJob, PauseFeedJob,
     ScanFeedNow, PatchFeedStatus
<1>4. feedJob' \in [FeedJobs -> FeedJobRow] /\ SameCriteria
  <2>1. CASE CreateFeedJob(j)
    BY <2>1, FeedTypes DEF CreateFeedJob, FeedJobRow, SameCriteria
  <2>a. feedJob[j] \in FeedJobRow
    BY FeedTypes
  <2>2. CASE ActivateFeedJob(j)
    <3> DEFINE x == [feedJob[j] EXCEPT !.st = "active", !.left = "none",
                       !.due = IF feedJob[j].left = "some" THEN "later"
                               ELSE "now"]
    <3>1. x \in FeedJobRow /\ x.crit = feedJob[j].crit
      BY <2>a DEF FeedJobRow
    <3>2. feedJob' = [feedJob EXCEPT ![j] = x]
      BY <2>2 DEF ActivateFeedJob
    <3> HIDE DEF x
    <3> QED
      BY <3>1, <3>2, JobTyped
  <2>3. CASE PauseFeedJob(j)
    <3> DEFINE x == [feedJob[j] EXCEPT !.st = "paused",
                       !.left = IF feedJob[j].due = "now" THEN "zero"
                                ELSE "some"]
    <3>1. x \in FeedJobRow /\ x.crit = feedJob[j].crit
      BY <2>a DEF FeedJobRow
    <3>2. feedJob' = [feedJob EXCEPT ![j] = x]
      BY <2>3 DEF PauseFeedJob
    <3> HIDE DEF x
    <3> QED
      BY <3>1, <3>2, JobTyped
  <2>4. CASE ScanFeedNow(j)
    BY <2>4, FeedTypes DEF ScanFeedNow, SameCriteria
  <2>5. CASE \E st \in {"active", "paused", "draft"} : PatchFeedStatus(j, st)
    BY <2>5, FeedTypes DEF PatchFeedStatus, FeedJobRow, SameCriteria
  <2> QED
    BY <2>1, <2>2, <2>3, <2>4, <2>5
<1>5. FeedTypeOK'
  BY <1>1, <1>2, <1>3, <1>4, FeedTypes, FeedTypesNext
<1> QED
  BY <1>1, <1>4, <1>5, TasksRest DEF RowsGrow

LEMMA ResultRequestKeeps ==
    ASSUME FeedTypeOK, NEW j \in FeedJobs, FeedRequest(j), NEW p \in FeedPosts,
           \/ DismissResult(j, p) \/ RestoreResult(j, p)
           \/ MarkApplied(j, p) \/ DeleteApplied(j, p)
    PROVE  FeedKeeps
<1>1. UNCHANGED <<slotCount, feedFound, feedTask, feedJob, feedLease, feedMsg>>
  BY RequestFrame
  DEF DismissResult, RestoreResult, MarkApplied, DeleteApplied
<1>2. feedRow' \in [FeedJobs -> FeedResults] /\ RowsGrow
  <2>1. CASE DismissResult(j, p)
    BY <2>1, FeedTypes DEF DismissResult, FeedResults, RowsGrow
  <2>2. CASE RestoreResult(j, p)
    BY <2>2, FeedTypes DEF RestoreResult, FeedResults, RowsGrow
  <2>3. CASE MarkApplied(j, p) \/ DeleteApplied(j, p)
    BY <2>3, FeedTypes DEF MarkApplied, DeleteApplied, RowsGrow
  <2> QED
    BY <2>1, <2>2, <2>3
<1>3. feedApplied' \in [FeedJobs -> SUBSET FeedPosts]
  BY FeedTypes
  DEF DismissResult, RestoreResult, MarkApplied, DeleteApplied
<1>4. FeedTypeOK' /\ SameCriteria
  BY <1>1, <1>2, <1>3, FeedTypes, FeedTypesNext DEF SameCriteria
<1> QED
  BY <1>1, <1>2, <1>4, TasksRest

LEMMA DeleteKeeps ==
    ASSUME FeedTypeOK, NEW j \in FeedJobs, FeedRequest(j), DeleteFeedJob(j)
    PROVE  FeedKeeps
<1>1. UNCHANGED <<slotCount, feedFound, feedTask, feedMsg>>
  BY RequestFrame DEF DeleteFeedJob
<1>2. feedRow' \in [FeedJobs -> FeedResults] /\ RowsGrow
  BY FeedTypes DEF DeleteFeedJob, FeedResults, RowsGrow
<1>3. feedApplied' \in [FeedJobs -> SUBSET FeedPosts]
      /\ feedLease' \in [FeedJobs -> FeedTokens \cup {NoFeedToken}]
  BY FeedTypes, LeaseTyped DEF DeleteFeedJob
<1>4. feedJob' \in [FeedJobs -> FeedJobRow] /\ SameCriteria
  BY FeedTypes DEF DeleteFeedJob, FeedJobRow, SameCriteria
<1>5. FeedTypeOK'
  BY <1>1, <1>2, <1>3, <1>4, FeedTypes, FeedTypesNext
<1> QED
  BY <1>1, <1>2, <1>4, <1>5, TasksRest

\* The rows are scored again, and no scan is about to store its own.
LEMMA EditKeeps ==
    ASSUME FeedTypeOK, NEW j \in FeedJobs, FeedRequest(j),
           NEW c \in FeedCriteria, EditFeedCriteria(j, c)
    PROVE  FeedKeeps
<1>1. UNCHANGED <<slotCount, feedFound, feedTask, feedApplied, feedLease,
                  feedMsg>>
  BY RequestFrame DEF EditFeedCriteria
<1>2. /\ feedJob' \in [FeedJobs -> FeedJobRow] /\ feedJob'[j].crit = c
      /\ \A k \in FeedJobs \ {j} : feedJob'[k] = feedJob[k]
  BY FeedTypes DEF EditFeedCriteria, FeedJobRow
<1>3. RescoreResults(j, c) \in FeedResults
  BY FeedTypes DEF RescoreResults, FeedResults
<1>4. /\ feedRow' \in [FeedJobs -> FeedResults]
      /\ feedRow'[j] = RescoreResults(j, c)
      /\ \A k \in FeedJobs \ {j} : feedRow'[k] = feedRow[k]
  BY <1>3, FeedTypes DEF EditFeedCriteria
<1>5. FeedTypeOK'
  BY <1>1, <1>2, <1>4, FeedTypes, FeedTypesNext
<1>6. RowsMatchCriteria => RowsMatchCriteria'
  BY <1>2, <1>4 DEF RowsMatchCriteria, RescoreResults
<1>7. ~CriteriaRace /\ SavedMatch => SavedMatch'
  <2> SUFFICES ASSUME ~CriteriaRace, SavedMatch, NEW w \in FeedWorkers,
                      NEW k \in FeedJobs, feedTask[w].pc = "save",
                      FeedJobOf(w) = k
               PROVE  Matches(k, feedTask[w].got)'
    BY <1>1 DEF SavedMatch, FeedJobOf
  <2>1. k # j
    BY DEF EditFeedCriteria
  <2>2. Matches(k, feedTask[w].got)
    BY DEF SavedMatch
  <2> QED
    BY <1>1, <1>2, <2>1, <2>2 DEF Matches
<1> QED
  BY <1>1, <1>5, <1>6, <1>7, SameSlots DEF FeedKeeps

LEMMA FeedRequestKeeps ==
    ASSUME FeedTypeOK, NEW j \in FeedJobs, FeedRequest(j)
    PROVE  FeedKeeps
BY JobRequestKeeps, ResultRequestKeeps, DeleteKeeps, EditKeeps DEF FeedRequest

-----------------------------------------------------------------------------
(* Beat, time, and the keys that expire.                                     *)

LEMMA BeatKeeps ==
    ASSUME FeedTypeOK,
           \/ FeedBeat
           \/ \E j \in FeedJobs, t \in FeedTokens : FeedDispatchDies(j, t)
    PROVE  FeedKeeps
<1>1. UNCHANGED <<slotCount, feedTask, feedJob, feedRow, feedApplied>>
  BY DEF FeedBeat, FeedDispatchFinds, FeedDispatchSkips, FeedDispatches,
         FeedDispatchDies
<1> DEFINE QueuesTyped ==
             /\ feedLease' \in [FeedJobs -> FeedTokens \cup {NoFeedToken}]
             /\ feedMsg' \subseteq FeedMessages /\ feedFound' \subseteq FeedJobs
<1>2. QueuesTyped
  <2>1. CASE FeedDispatchFinds
    BY <2>1, FeedTypes DEF FeedDispatchFinds
  <2>2. ASSUME NEW j \in FeedJobs, FeedDispatchSkips(j)
        PROVE  QueuesTyped
    BY <2>2, FeedTypes DEF FeedDispatchSkips
  <2>3. ASSUME NEW j \in FeedJobs, NEW t \in FeedTokens,
               FeedDispatches(j, t) \/ FeedDispatchDies(j, t)
        PROVE  QueuesTyped
    BY <2>3, FeedTypes, MessageTyped, LeaseTyped
    DEF FeedDispatches, FeedDispatchDies
  <2> QED
    BY <2>1, <2>2, <2>3 DEF FeedBeat
<1>3. FeedTypeOK'
  BY <1>1, <1>2, FeedTypes, FeedTypesNext
<1> QED
  BY <1>1, <1>3, TasksRest DEF SameCriteria, RowsGrow

LEMMA TimeKeeps ==
    ASSUME FeedTypeOK,
           \/ \E j \in FeedJobs : FeedTimePasses(j) \/ FeedLeaseExpires(j)
           \/ \E p \in Profiles : FeedLockExpires(p)
           \/ UNCHANGED feedVars
    PROVE  FeedKeeps
<1>1. UNCHANGED <<slotCount, feedTask, feedRow, feedApplied, feedMsg,
                  feedFound>>
  BY DEF FeedTimePasses, FeedLeaseExpires, FeedLockExpires, feedVars
<1>2. feedJob' \in [FeedJobs -> FeedJobRow] /\ SameCriteria
  <2>1. ASSUME NEW j \in FeedJobs, FeedTimePasses(j)
        PROVE  feedJob' \in [FeedJobs -> FeedJobRow] /\ SameCriteria
    BY <2>1, FeedTypes DEF FeedTimePasses, FeedJobRow, SameCriteria
  <2>2. CASE UNCHANGED feedJob
    BY <2>2, FeedTypes DEF SameCriteria
  <2> QED
    BY <2>1, <2>2 DEF FeedLeaseExpires, FeedLockExpires, feedVars
<1>3. feedLease' \in [FeedJobs -> FeedTokens \cup {NoFeedToken}]
  BY FeedTypes DEF FeedTimePasses, FeedLeaseExpires, FeedLockExpires, feedVars
<1>4. FeedTypeOK'
  BY <1>1, <1>2, <1>3, FeedTypes, FeedTypesNext
<1> QED
  BY <1>1, <1>2, <1>4, TasksRest DEF RowsGrow

\* The slots' key expires when nobody is counted.
LEMMA SlotsExpireKeeps ==
    ASSUME FeedTypeOK, FeedSlotsExpire
    PROVE  FeedKeeps
<1>1. UNCHANGED <<feedTask, feedJob, feedRow, feedApplied, feedLease, feedMsg,
                  feedFound>> /\ slotCount' = 0
  BY DEF FeedSlotsExpire, SlotKeyExpires
<1>2. FeedTypeOK'
  BY <1>1, FeedTypes, FeedTypesNext
<1>3. RowsMatchCriteria /\ SavedMatch => RowsMatchCriteria' /\ SavedMatch'
  BY <1>1, RowsKeep DEF SameCriteria, RowsGrow
<1>4. ~SlowFeedScans /\ SlotInv => SlotInv'
  <2> SUFFICES ASSUME ~SlowFeedScans, SlotInv
               PROVE  SlotInv'
    OBVIOUS
  <2>1. Counted = {}
    BY DEF FeedSlotsExpire, FeedHolds, Counted
  <2>2. Counted' = {} /\ LetIn' = LetIn
    BY <1>1, <2>1 DEF Counted, LetIn
  <2> QED
    BY <1>1, <2>2, FS_EmptySet DEF SlotInv
<1> QED
  BY <1>2, <1>3, <1>4 DEF FeedKeeps

-----------------------------------------------------------------------------
(* The workers.                                                              *)

\* One worker goes to x.
LEMMA WorkerTyped ==
    ASSUME FeedTypeOK, NEW w \in FeedWorkers, NEW x \in FeedWork,
           feedTask' = [feedTask EXCEPT ![w] = x]
    PROVE  /\ feedTask' \in [FeedWorkers -> FeedWork] /\ feedTask'[w] = x
           /\ \A v \in FeedWorkers \ {w} : feedTask'[v] = feedTask[v]
BY FeedTypes

LEMMA IdleFeedTyped == IdleFeed \in FeedWork /\ IdleFeed.pc = "idle"
<1>1. /\ "idle" \in FeedPcs /\ {} \in SUBSET FeedMessages
      /\ {} \in SUBSET FeedPosts /\ 0 \in Int
  BY DEF FeedPcs
<1> QED
  BY <1>1 DEF IdleFeed, FeedWork

CountedPcs == {"counted", "lock", "scan"}
MayHold(pc, n) == pc \in {"lock", "scan"} \/ (pc = "counted" /\ n <= MaxSlots)

\* What the counter and the worker do when it goes from one place to another:
\* it is counted, it is not counted any more, it dies, or neither.
Counts(w, pc, n) ==
    \/ /\ feedTask[w].pc \notin CountedPcs /\ pc = "counted"
       /\ slotCount' = slotCount + 1 /\ n = slotCount'
    \/ /\ feedTask[w].pc \in CountedPcs /\ pc \notin CountedPcs
       /\ slotCount' \in {slotCount, slotCount - 1}
    \/ /\ feedTask[w].pc \notin CountedPcs /\ pc \notin CountedPcs
       /\ slotCount' = slotCount
    \/ /\ feedTask[w].pc \in CountedPcs /\ pc \in CountedPcs
       /\ MayHold(pc, n) => MayHold(feedTask[w].pc, feedTask[w].n)
       /\ slotCount' = slotCount

LEMMA SlotsKeep ==
    ASSUME FeedTypeOK, SlotInv, IsFiniteSet(FeedWorkers),
           NEW w \in FeedWorkers, NEW x \in FeedWork,
           feedTask' = [feedTask EXCEPT ![w] = x], Counts(w, x.pc, x.n)
    PROVE  SlotInv'
<1>1. /\ feedTask'[w] = x
      /\ \A v \in FeedWorkers \ {w} : feedTask'[v] = feedTask[v]
  BY WorkerTyped
<1>2. /\ IsFiniteSet(Counted) /\ IsFiniteSet(LetIn)
      /\ Counted \subseteq FeedWorkers /\ LetIn \subseteq Counted
  <2>1. Counted \subseteq FeedWorkers /\ LetIn \subseteq Counted
    BY DEF Counted, LetIn
  <2> QED
    BY <2>1, FS_Subset
<1>3. /\ Cardinality(Counted) \in Nat /\ Cardinality(LetIn) \in Nat
      /\ slotCount \in Int /\ MaxSlots \in Nat
  BY <1>2, FS_CardinalityType, FeedTypes, SlotsAssumption
<1>4. CASE /\ feedTask[w].pc \notin CountedPcs /\ x.pc = "counted"
           /\ slotCount' = slotCount + 1 /\ x.n = slotCount'
  <2>1. w \notin Counted /\ Counted' = Counted \cup {w}
    BY <1>1, <1>4 DEF Counted, CountedPcs
  <2>2. Cardinality(Counted') = Cardinality(Counted) + 1
        /\ IsFiniteSet(Counted')
    BY <1>2, <2>1, FS_AddElement
  <2>3. CASE x.n <= MaxSlots
    <3>1. LetIn' \subseteq Counted'
      BY DEF LetIn, Counted
    <3>2. Cardinality(LetIn') <= Cardinality(Counted')
          /\ Cardinality(LetIn') \in Nat
      BY <2>2, <3>1, FS_Subset, FS_CardinalityType
    <3> QED
      BY <1>3, <1>4, <2>2, <2>3, <3>2 DEF SlotInv
  <2>4. CASE ~(x.n <= MaxSlots)
    <3>1. LetIn' = LetIn
      BY <1>1, <1>4, <2>4 DEF LetIn, CountedPcs
    <3> QED
      BY <1>3, <1>4, <2>2, <3>1 DEF SlotInv
  <2> QED
    BY <2>3, <2>4
<1>5. CASE /\ feedTask[w].pc \in CountedPcs /\ x.pc \notin CountedPcs
           /\ slotCount' \in {slotCount, slotCount - 1}
  <2>1. w \in Counted /\ Counted' = Counted \ {w}
    BY <1>1, <1>5 DEF Counted, CountedPcs
  <2>2. Cardinality(Counted') = Cardinality(Counted) - 1
    BY <1>2, <2>1, FS_RemoveElement
  <2>3. LetIn' \subseteq LetIn
    BY <1>1, <1>5 DEF LetIn, CountedPcs
  <2>4. Cardinality(LetIn') <= Cardinality(LetIn)
        /\ Cardinality(LetIn') \in Nat
    BY <1>2, <2>3, FS_Subset, FS_CardinalityType
  <2> QED
    BY <1>3, <1>5, <2>2, <2>4 DEF SlotInv
<1>6. CASE /\ feedTask[w].pc \notin CountedPcs /\ x.pc \notin CountedPcs
           /\ slotCount' = slotCount
  <2>1. Counted' = Counted /\ LetIn' = LetIn
    BY <1>1, <1>6 DEF Counted, LetIn, CountedPcs
  <2> QED
    BY <1>6, <2>1 DEF SlotInv
<1>7. CASE /\ feedTask[w].pc \in CountedPcs /\ x.pc \in CountedPcs
           /\ MayHold(x.pc, x.n) =>
                 MayHold(feedTask[w].pc, feedTask[w].n)
           /\ slotCount' = slotCount
  <2>1. Counted' = Counted
    BY <1>1, <1>7 DEF Counted, CountedPcs
  <2>2. LetIn' \subseteq LetIn
    BY <1>1, <1>7 DEF LetIn, MayHold
  <2>3. Cardinality(LetIn') <= Cardinality(LetIn)
        /\ Cardinality(LetIn') \in Nat
    BY <1>2, <2>2, FS_Subset, FS_CardinalityType
  <2> QED
    BY <1>3, <1>7, <2>1, <2>3 DEF SlotInv
<1> QED
  BY <1>4, <1>5, <1>6, <1>7 DEF Counts

LEMMA WorkerKeeps ==
    ASSUME FeedTypeOK, NEW w \in FeedWorkers, NEW x \in FeedWork,
           feedTask' = [feedTask EXCEPT ![w] = x], Counts(w, x.pc, x.n),
           \/ x.pc # "save"
           \/ /\ x.msg = feedTask[w].msg
              /\ FeedJobOf(w) \in FeedJobs => Matches(FeedJobOf(w), x.got),
           SameCriteria, RowsGrow,
           feedJob' \in [FeedJobs -> FeedJobRow],
           feedRow' \in [FeedJobs -> FeedResults],
           UNCHANGED <<feedApplied, feedFound>>,
           feedLease' \in [FeedJobs -> FeedTokens \cup {NoFeedToken}],
           feedMsg' \subseteq FeedMessages
    PROVE  FeedKeeps
<1>1. /\ feedTask' \in [FeedWorkers -> FeedWork] /\ feedTask'[w] = x
      /\ \A v \in FeedWorkers \ {w} : feedTask'[v] = feedTask[v]
  BY WorkerTyped
<1>2. slotCount' \in Int
  BY FeedTypes DEF Counts
<1>3. FeedTypeOK'
  BY <1>1, <1>2, FeedTypes, FeedTypesNext
<1>4. RowsMatchCriteria /\ SavedMatch => RowsMatchCriteria' /\ SavedMatch'
  <2>1. \A v \in FeedWorkers :
           \/ feedTask'[v] = feedTask[v]
           \/ feedTask'[v].pc # "save"
           \/ /\ feedTask'[v].msg = feedTask[v].msg
              /\ FeedJobOf(v) \in FeedJobs =>
                    Matches(FeedJobOf(v), feedTask'[v].got)
    BY <1>1
  <2> QED
    BY <2>1, RowsKeep
<1>5. SlotInv /\ IsFiniteSet(FeedWorkers) => SlotInv'
  BY SlotsKeep
<1> QED
  BY <1>3, <1>4, <1>5 DEF FeedKeeps

\* Most steps only move the worker, a message and its lease.
LEMMA FeedMovesKeeps ==
    ASSUME FeedTypeOK, NEW w \in FeedWorkers, NEW x \in FeedWork,
           feedTask' = [feedTask EXCEPT ![w] = x], Counts(w, x.pc, x.n),
           x.pc # "save",
           UNCHANGED <<feedJob, feedRow, feedApplied, feedFound>>,
           feedLease' \in [FeedJobs -> FeedTokens \cup {NoFeedToken}],
           feedMsg' \subseteq FeedMessages
    PROVE  FeedKeeps
<1>1. SameCriteria /\ RowsGrow
  BY DEF SameCriteria, RowsGrow
<1> QED
  BY <1>1, WorkerKeeps, FeedTypes

LEMMA WorkerFields ==
    ASSUME FeedTypeOK, NEW w \in FeedWorkers
    PROVE  /\ feedTask[w] \in FeedWork
           /\ slotCount \in Int /\ MaxSlots \in Nat
BY FeedTypes, SlotsAssumption

LEMMA StartKeeps ==
    ASSUME FeedTypeOK, NEW w \in FeedWorkers, NEW m \in feedMsg,
           FeedStarts(w, m) \/ FeedSkips(w, m)
    PROVE  FeedKeeps
<1>1. m \in FeedMessages /\ feedMsg' \subseteq FeedMessages
      /\ feedTask[w] \in FeedWork
  BY FeedTypes DEF FeedStarts, FeedSkips
<1>2. CASE FeedStarts(w, m)
  <2> DEFINE x == [feedTask[w] EXCEPT !.pc = "slot", !.msg = {m}]
  <2>1. x \in FeedWork /\ x.pc = "slot"
    BY <1>1 DEF FeedWork, FeedPcs
  <2>2. feedTask' = [feedTask EXCEPT ![w] = x] /\ feedTask[w].pc = "idle"
    BY <1>2 DEF FeedStarts
  <2> HIDE DEF x
  <2>3. Counts(w, x.pc, x.n)
    BY <1>2, <2>1, <2>2 DEF Counts, CountedPcs, FeedStarts
  <2> QED
    BY <1>1, <1>2, <2>1, <2>2, <2>3, FeedMovesKeeps, FeedTypes DEF FeedStarts
<1>3. CASE FeedSkips(w, m)
  <2>1. UNCHANGED <<slotCount, feedTask, feedJob, feedRow, feedApplied,
                    feedFound>>
    BY <1>3 DEF FeedSkips
  <2>2. feedLease' \in [FeedJobs -> FeedTokens \cup {NoFeedToken}]
    BY <1>3, LeaseTyped DEF FeedSkips
  <2>3. FeedTypeOK' /\ SameCriteria /\ RowsGrow
    BY <1>1, <2>1, <2>2, FeedTypes, FeedTypesNext DEF SameCriteria, RowsGrow
  <2> QED
    BY <2>1, <2>3, TasksRest
<1> QED
  BY <1>2, <1>3

LEMMA SlotStepKeeps ==
    ASSUME FeedTypeOK, NEW w \in FeedWorkers,
           FeedCounts(w) \/ FeedAdmitted(w) \/ FeedRefused(w) \/ FeedOpens(w)
    PROVE  FeedKeeps
<1>1. UNCHANGED <<feedJob, feedRow, feedApplied, feedFound, feedLease, feedMsg>>
  BY DEF FeedCounts, FeedAdmitted, FeedRefused, FeedOpens
<1>2. feedTask[w] \in FeedWork /\ slotCount \in Int /\ MaxSlots \in Nat
  BY WorkerFields
<1>3. CASE FeedCounts(w)
  <2>0. PICK n \in Int : n = slotCount'
    BY <1>2, <1>3 DEF FeedCounts, SlotIncr
  <2> DEFINE x == [feedTask[w] EXCEPT !.pc = "counted", !.n = n]
  <2>1. x \in FeedWork /\ x.pc = "counted" /\ x.n = n
    BY <1>2 DEF FeedWork, FeedPcs
  <2>2. feedTask' = [feedTask EXCEPT ![w] = x]
    BY <2>0, <1>3 DEF FeedCounts
  <2> HIDE DEF x
  <2>3. Counts(w, x.pc, x.n)
    BY <1>2, <2>0, <2>1, <1>3 DEF Counts, CountedPcs, MayHold,
       FeedCounts, SlotIncr
  <2> QED
    BY <1>1, <2>1, <2>2, <2>3, FeedMovesKeeps, FeedTypes
<1>4. CASE FeedAdmitted(w)
  <2>0. PICK n \in Int : n = 0
    OBVIOUS
  <2> DEFINE x == [feedTask[w] EXCEPT !.pc = "lock", !.n = n]
  <2>1. x \in FeedWork /\ x.pc = "lock" /\ x.n = n
    BY <1>2 DEF FeedWork, FeedPcs
  <2>2. feedTask' = [feedTask EXCEPT ![w] = x]
    BY <2>0, <1>4 DEF FeedAdmitted
  <2> HIDE DEF x
  <2>3. Counts(w, x.pc, x.n)
    BY <1>2, <2>0, <2>1, <1>4 DEF Counts, CountedPcs, MayHold,
       FeedAdmitted, SlotGranted
  <2> QED
    BY <1>1, <2>1, <2>2, <2>3, FeedMovesKeeps, FeedTypes
<1>5. CASE FeedRefused(w)
  <2>0. PICK n \in Int : n = 0
    OBVIOUS
  <2> DEFINE x == [feedTask[w] EXCEPT !.n = n, !.pc = "slot"]
  <2>1. x \in FeedWork /\ x.pc = "slot" /\ x.n = n
    BY <1>2 DEF FeedWork, FeedPcs
  <2>2. feedTask' = [feedTask EXCEPT ![w] = x]
    BY <2>0, <1>5 DEF FeedRefused
  <2> HIDE DEF x
  <2>3. Counts(w, x.pc, x.n)
    BY <1>2, <2>0, <2>1, <1>5 DEF Counts, CountedPcs, MayHold,
       FeedRefused, SlotDecr
  <2> QED
    BY <1>1, <2>1, <2>2, <2>3, FeedMovesKeeps, FeedTypes
<1>6. CASE FeedOpens(w)
  <2> DEFINE x == [feedTask[w] EXCEPT !.pc = "scan"]
  <2>1. x \in FeedWork /\ x.pc = "scan" /\ x.n = feedTask[w].n
    BY <1>2 DEF FeedWork, FeedPcs
  <2>2. feedTask' = [feedTask EXCEPT ![w] = x]
    BY <1>6 DEF FeedOpens, FeedGoes
  <2> HIDE DEF x
  <2>3. Counts(w, x.pc, x.n)
    BY <1>2, <2>1, <1>6 DEF Counts, CountedPcs, MayHold, FeedOpens
  <2> QED
    BY <1>1, <2>1, <2>2, <2>3, FeedMovesKeeps, FeedTypes
<1> QED
  BY <1>3, <1>4, <1>5, <1>6

\* The ways to an empty or a full bag.
LEMMA CollectKeeps ==
    ASSUME FeedTypeOK, NEW w \in FeedWorkers,
           \/ FeedGivesUp(w) \/ FeedProfileInUse(w)
           \/ \E P \in SUBSET Collectable : FeedCollects(w, P)
    PROVE  FeedKeeps
<1>1. UNCHANGED <<feedJob, feedRow, feedApplied, feedFound, feedLease, feedMsg>>
  BY DEF FeedGivesUp, FeedProfileInUse, FeedCollects
<1>2. feedTask[w] \in FeedWork /\ slotCount \in Int /\ MaxSlots \in Nat
  BY WorkerFields
<1>3. Collectable \subseteq FeedPosts
  BY DEF Collectable, FeedPosts
<1>4. CASE FeedGivesUp(w) \/ FeedProfileInUse(w)
  <2>0. PICK n \in Int : n = 0
    OBVIOUS
  <2> DEFINE x == [feedTask[w] EXCEPT !.pc = "store", !.got = {}, !.n = n]
  <2>1. x \in FeedWork /\ x.pc = "store" /\ x.n = n
    BY <1>2 DEF FeedWork, FeedPcs
  <2>2. feedTask' = [feedTask EXCEPT ![w] = x]
    BY <2>0, <1>4 DEF FeedGivesUp, FeedProfileInUse, FeedEmpty
  <2> HIDE DEF x
  <2>3. Counts(w, x.pc, x.n)
    BY <1>2, <2>0, <2>1, <1>4 DEF Counts, CountedPcs, MayHold,
       FeedGivesUp, FeedProfileInUse, SlotDecr
  <2> QED
    BY <1>1, <2>1, <2>2, <2>3, FeedMovesKeeps, FeedTypes
<1>5. ASSUME NEW P \in SUBSET Collectable, FeedCollects(w, P)
      PROVE  FeedKeeps
  <2> DEFINE x == [feedTask[w] EXCEPT !.pc = "store", !.got = P]
  <2>1. x \in FeedWork /\ x.pc = "store" /\ x.n = feedTask[w].n
    BY <1>2, <1>3, <1>5 DEF FeedWork, FeedPcs
  <2>2. feedTask' = [feedTask EXCEPT ![w] = x]
    BY <1>5 DEF FeedCollects
  <2> HIDE DEF x
  <2>3. Counts(w, x.pc, x.n)
    BY <1>2, <2>1, <1>5 DEF Counts, CountedPcs, MayHold,
       FeedCollects, SlotDecr
  <2> QED
    BY <1>1, <2>1, <2>2, <2>3, FeedMovesKeeps, FeedTypes
<1> QED
  BY <1>4, <1>5

\* The worker is done, or dies.
LEMMA RestsKeeps ==
    ASSUME FeedTypeOK, NEW w \in FeedWorkers,
           FeedStoreRaises(w) \/ FeedEnds(w) \/ FeedWorkerDies(w)
    PROVE  FeedKeeps
<1>1. /\ UNCHANGED <<slotCount, feedJob, feedRow, feedApplied, feedFound>>
      /\ feedTask' = [feedTask EXCEPT ![w] = IdleFeed]
  BY DEF FeedStoreRaises, FeedEnds, FeedWorkerDies, FeedRests
<1>2. feedLease' \in [FeedJobs -> FeedTokens \cup {NoFeedToken}]
  BY FeedTypes, LeaseTyped DEF FeedStoreRaises, FeedEnds, FeedWorkerDies
<1>3. feedMsg' \subseteq FeedMessages
  BY FeedTypes DEF FeedStoreRaises, FeedEnds, FeedWorkerDies, FeedWork
<1>4. Counts(w, IdleFeed.pc, IdleFeed.n)
  BY <1>1, IdleFeedTyped DEF Counts, CountedPcs
<1> QED
  BY <1>1, <1>2, <1>3, <1>4, IdleFeedTyped, FeedMovesKeeps

\* What is kept matches the criteria as they are when the job is read again.
LEMMA ScoreKeeps ==
    ASSUME FeedTypeOK, NEW w \in FeedWorkers, FeedScores(w)
    PROVE  FeedKeeps
<1> DEFINE j == FeedJobOf(w)
           new == NewRows(j, feedTask[w].got)
<1>1. /\ feedTask[w].pc = "store" /\ feedTask[w] \in FeedWork
      /\ UNCHANGED <<slotCount, feedJob, feedRow, feedApplied, feedFound,
                     feedLease, feedMsg>>
  BY WorkerFields DEF FeedScores
<1>2. SameCriteria /\ RowsGrow
  BY <1>1 DEF SameCriteria, RowsGrow
<1>3. CASE FeedLive(j)
  <2>1. PICK K \in SUBSET new :
           feedTask' = [feedTask EXCEPT ![w].pc = "save", ![w].got = K]
    BY <1>3 DEF FeedScores
  <2> DEFINE x == [feedTask[w] EXCEPT !.pc = "save", !.got = K]
  <2>2. /\ K \subseteq feedTask[w].got
        /\ \A p \in K : <<p, feedJob[j].crit>> \in FeedMatches
    BY DEF NewRows, Relevant
  <2>3. x \in FeedWork /\ x.pc = "save" /\ x.got = K /\ x.msg = feedTask[w].msg
    BY <1>1, <2>2 DEF FeedWork, FeedPcs
  <2>4. feedTask' = [feedTask EXCEPT ![w] = x]
    BY <2>1
  <2> HIDE DEF x
  <2>5. Counts(w, x.pc, x.n) /\ Matches(j, x.got)
    BY <1>1, <2>2, <2>3 DEF Counts, CountedPcs, Matches
  <2> QED
    BY <1>1, <1>2, <2>3, <2>4, <2>5, WorkerKeeps, FeedTypes
<1>4. CASE ~FeedLive(j)
  <2> DEFINE x == [feedTask[w] EXCEPT !.pc = "free"]
  <2>1. x \in FeedWork /\ x.pc = "free"
    BY <1>1 DEF FeedWork, FeedPcs
  <2>2. feedTask' = [feedTask EXCEPT ![w] = x]
    BY <1>4 DEF FeedScores, FeedGoes
  <2> HIDE DEF x
  <2>3. Counts(w, x.pc, x.n)
    BY <1>1, <2>1 DEF Counts, CountedPcs
  <2> QED
    BY <1>1, <2>1, <2>2, <2>3, FeedMovesKeeps, FeedTypes
<1> QED
  BY <1>3, <1>4

\* The commit adds rows of what matched, to a job that nobody has edited since.
LEMMA StoreKeeps ==
    ASSUME FeedTypeOK, NEW w \in FeedWorkers, FeedStores(w)
    PROVE  FeedKeeps
<1> DEFINE j == FeedJobOf(w)
           P == feedTask[w].got
           x == [feedTask[w] EXCEPT !.pc = "free"]
           y == [p \in FeedPosts |-> IF p \in P THEN "shown" ELSE feedRow[j][p]]
<1>1. /\ feedTask[w].pc = "save" /\ feedTask[w] \in FeedWork
      /\ UNCHANGED <<slotCount, feedApplied, feedFound, feedLease, feedMsg>>
  BY WorkerFields DEF FeedStores
<1>2. x \in FeedWork /\ x.pc = "free"
  BY <1>1 DEF FeedWork, FeedPcs
<1>3. feedTask' = [feedTask EXCEPT ![w] = x]
  BY DEF FeedStores, FeedGoes
<1> HIDE DEF x
<1>4. /\ feedTask' \in [FeedWorkers -> FeedWork] /\ feedTask'[w] = x
      /\ \A v \in FeedWorkers \ {w} : feedTask'[v] = feedTask[v]
  BY <1>2, <1>3, WorkerTyped
<1>5. Counts(w, x.pc, x.n)
  BY <1>1, <1>2 DEF Counts, CountedPcs
<1>6. feedJob' \in [FeedJobs -> FeedJobRow] /\ SameCriteria
  <2>1. feedJob' = [feedJob EXCEPT ![j].due = "later", ![j].left = "none"]
    BY DEF FeedStores, Reschedules
  <2> HIDE DEF j
  <2>2. CASE j \in FeedJobs
    <3> DEFINE z == [feedJob[j] EXCEPT !.due = "later", !.left = "none"]
    <3>1. feedJob[j] \in FeedJobRow
      BY <2>2, FeedTypes
    <3>2. z \in FeedJobRow /\ z.crit = feedJob[j].crit
      BY <3>1 DEF FeedJobRow
    <3>3. feedJob' = [feedJob EXCEPT ![j] = z]
      BY <2>1
    <3> HIDE DEF z
    <3> QED
      BY <2>2, <3>2, <3>3, JobTyped
  <2>3. CASE j \notin FeedJobs
    BY <2>1, <2>3, FeedTypes DEF SameCriteria
  <2> QED
    BY <2>2, <2>3
<1>7. feedRow' = [feedRow EXCEPT ![j] = y]
  BY DEF FeedStores
<1>8. j \in FeedJobs => y \in FeedResults
  BY FeedTypes DEF FeedResults
<1>9. /\ feedRow' \in [FeedJobs -> FeedResults]
      /\ \A k \in FeedJobs : feedRow'[k] = IF k = j THEN y ELSE feedRow[k]
  BY <1>7, <1>8, FeedTypes
<1>10. FeedTypeOK'
  BY <1>1, <1>4, <1>6, <1>9, FeedTypes, FeedTypesNext
<1>11. SavedMatch => RowsGrow
  BY <1>1, <1>9 DEF SavedMatch, RowsGrow, Matches
<1>12. RowsMatchCriteria /\ SavedMatch => RowsMatchCriteria' /\ SavedMatch'
  <2>1. \A v \in FeedWorkers : \/ feedTask'[v] = feedTask[v]
                                \/ feedTask'[v].pc # "save"
    BY <1>2, <1>4
  <2> QED
    BY <1>6, <1>11, <2>1, RowsKeep
<1>13. SlotInv /\ IsFiniteSet(FeedWorkers) => SlotInv'
  BY <1>2, <1>3, <1>5, SlotsKeep
<1> QED
  BY <1>10, <1>12, <1>13 DEF FeedKeeps

-----------------------------------------------------------------------------
(* Theorems about the scans of the feed.                                     *)

LEMMA FeedStepKeeps ==
    ASSUME FeedTypeOK, [FeedNext]_feedVars
    PROVE  FeedKeeps
<1>1. ASSUME NEW w \in FeedWorkers,
             FeedStep(w) \/ FeedGivesUp(w) \/ FeedWorkerDies(w)
      PROVE  FeedKeeps
  BY <1>1, StartKeeps, SlotStepKeeps, CollectKeeps, RestsKeeps, ScoreKeeps,
     StoreKeeps DEF FeedStep
<1>2. ASSUME NEW j \in FeedJobs, FeedRequest(j)
      PROVE  FeedKeeps
  BY <1>2, FeedRequestKeeps
<1> QED
  BY <1>1, <1>2, BeatKeeps, TimeKeeps, SlotsExpireKeeps DEF FeedNext

LEMMA FeedStart ==
    ASSUME FeedInit
    PROVE  FeedTypeOK /\ RowsMatchCriteria /\ SavedMatch /\ SlotInv
<1>1. FeedTypeOK
  <2>1. feedJob \in [FeedJobs -> FeedJobRow]
    BY DEF FeedInit, FeedJobRow
  <2>2. feedRow \in [FeedJobs -> FeedResults]
    BY DEF FeedInit, FeedResults
  <2>3. feedTask \in [FeedWorkers -> FeedWork]
    BY IdleFeedTyped DEF FeedInit
  <2> QED
    BY <2>1, <2>2, <2>3, FeedTypes DEF FeedInit, SlotsInit
<1>2. \A w \in FeedWorkers : feedTask[w].pc = "idle"
  BY IdleFeedTyped DEF FeedInit, IdleFeed
<1>3. RowsMatchCriteria /\ SavedMatch
  BY <1>2 DEF FeedInit, RowsMatchCriteria, SavedMatch
<1>4. Counted = {} /\ LetIn = {} /\ slotCount = 0
  BY <1>2 DEF Counted, LetIn, FeedInit, SlotsInit
<1>5. SlotInv
  BY <1>4, FS_EmptySet, SlotsAssumption DEF SlotInv
<1> QED
  BY <1>1, <1>3, <1>5

\* The variables of the scans keep their types.
THEOREM FeedTypeCorrect == FeedSpec => []FeedTypeOK
<1>1. FeedTypeOK /\ [FeedNext]_feedVars => FeedTypeOK'
  BY FeedStepKeeps DEF FeedKeeps
<1> QED
  BY <1>1, FeedStart, PTL DEF FeedSpec

\* Every stored post matches the criteria its job has now, although they may
\* be edited at any step of a scan but one (feed_scroll_tasks.py loads the job
\* again before it scores): an edit within the transaction that stores is what
\* CriteriaRace allows.
THEOREM RowsMatchCriteriaCorrect ==
    ASSUME ~CriteriaRace
    PROVE  FeedSpec => []RowsMatchCriteria
<1> DEFINE Inv == FeedTypeOK /\ RowsMatchCriteria /\ SavedMatch
<1>1. Inv /\ [FeedNext]_feedVars => Inv'
  BY FeedStepKeeps DEF FeedKeeps
<1>2. FeedInit => Inv
  BY FeedStart
<1>3. Inv => RowsMatchCriteria
  OBVIOUS
<1> HIDE DEF Inv
<1> QED
  BY <1>1, <1>2, <1>3, PTL DEF FeedSpec

\* No more than MAX_CONCURRENT_PLAYWRIGHT workers have a browser, as long as
\* no scan outlives the hour of the slots' key (playwright_semaphore.py): those
\* that the counter has let in are counted, and whoever was let in last found
\* a counter within the limit.
THEOREM SlotsBoundedCorrect ==
    ASSUME ~SlowFeedScans, IsFiniteSet(FeedWorkers)
    PROVE  FeedSpec => []SlotsBounded
<1> DEFINE Inv == FeedTypeOK /\ SlotInv
<1>1. Inv /\ [FeedNext]_feedVars => Inv'
  BY FeedStepKeeps DEF FeedKeeps
<1>2. FeedInit => Inv
  BY FeedStart
<1>3. Inv => SlotsBounded
  <2> DEFINE H == {w \in FeedWorkers : FeedHolds(w)}
  <2>1. IsFiniteSet(LetIn) /\ H \subseteq LetIn
    <3>1. LetIn \subseteq FeedWorkers
      BY DEF LetIn
    <3> QED
      BY <3>1, FS_Subset DEF FeedHolds, LetIn
  <2>2. /\ Cardinality(H) <= Cardinality(LetIn)
        /\ Cardinality(LetIn) \in Nat /\ Cardinality(H) \in Nat
    BY <2>1, FS_Subset, FS_CardinalityType
  <2> HIDE DEF H
  <2>3. SlotInv => Cardinality(H) <= MaxSlots
    BY <2>2, SlotsAssumption DEF SlotInv
  <2> QED
    BY <2>3 DEF SlotsBounded, H
<1> HIDE DEF Inv
<1> QED
  BY <1>1, <1>2, <1>3, PTL DEF FeedSpec

-----------------------------------------------------------------------------
(* The actions on a lead's page (LinkedInActions).                           *)

Composer == [to: {"lead", "other", "nobody"}, ready: BOOLEAN]
ActionPcs == {"idle", "load", "feed", "find", "check", "again", "connect",
              "submit", "sent", "button", "direct", "type", "send", "confirm",
              "verify"}
Call == [pc: ActionPcs, kind: ActionKinds, text: Texts \cup {NoText}, seen: Nat,
         dead: BOOLEAN]
Told == [kind: ActionKinds, text: Texts \cup {NoText}, dead: BOOLEAN,
         end: Ends]

\* Each part of the page belongs to one kind of call, and a message has a text.
Fits(pc, k) ==
    /\ pc = "feed" => k = "visit_like"
    /\ pc \in {"find", "check", "again"} => k \in {"like", "visit_like"}
    /\ pc \in {"connect", "submit", "sent"} => k = "connect"
    /\ pc \in {"button", "direct", "type", "send", "confirm", "verify"}
          => k = "message"

\* A call that found its session dead never gets beyond the first page.
DeadStays == action.dead => action.pc = "load" /\ ~alive

ActionInv ==
    /\ ActionTypeOK /\ Fits(action.pc, action.kind) /\ DeadStays
    /\ action.pc # "idle" /\ action.kind = "message" => action.text \in Texts
    /\ DeadSessionIsReported

\* The composer that is typed into is the newest one, and the lead's.
LeadsComposer ==
    action.pc \in {"type", "send"} =>
       tabs # <<>> /\ tabs[Len(tabs)].to = "lead"

\* What ReportedIsDone says of a step.
Honest ==
    /\ astray' = astray
    /\ action.pc # "idle" /\ action'.pc = "idle" /\ told'.end = "ok" =>
         CASE told'.kind = "message" -> thread'[told'.text] > 0
           [] told'.kind = "connect" -> bond' # "none" \/ dialog' = "closed"
           [] told'.kind = "visit"   -> TRUE
           [] OTHER                  -> liked'

Done(k) ==
    /\ k = "message" => thread'[action.text] > 0
    /\ k = "connect" => bond' # "none" \/ dialog' = "closed"
    /\ k \in {"like", "visit_like"} => liked'

PageTyped ==
    /\ bond' \in {"none", "pending", "connected"}
    /\ offer' \in {"card", "menu", "follow", "following", "nowhere"}
    /\ thread' \in [Texts -> Nat] /\ astray' \in Nat
    /\ liked' \in BOOLEAN
    /\ tabs' \in Seq(Composer)
    /\ dialog' \in {"closed", "open", "gated", "refused"}

LEMMA ActionTypes ==
    ActionTypeOK <=>
       /\ bond \in {"none", "pending", "connected"}
       /\ offer \in {"card", "menu", "follow", "following", "nowhere"}
       /\ thread \in [Texts -> Nat] /\ astray \in Nat
       /\ liked \in BOOLEAN /\ alive \in BOOLEAN
       /\ tabs \in Seq(Composer)
       /\ dialog \in {"closed", "open", "gated", "refused"}
       /\ action \in Call /\ told \in Told
BY DEF ActionTypeOK, Composer, Call, Told, ActionPcs

LEMMA ActionTypesNext ==
    ActionTypeOK' <=> PageTyped /\ alive' \in BOOLEAN
                      /\ action' \in Call /\ told' \in Told
BY DEF ActionTypeOK, Composer, Call, Told, ActionPcs, PageTyped

\* A dead session shows nothing but walls and blank pages.
LEMMA DeadLoadsAreStale ==
    ASSUME NEW l \in DeadLoads
    PROVE  l = "stale"
<1>1. PICK e \in Loads :
         l = Recover(e) /\ "shown" \notin Looks(e) /\ e.feed # "ok"
  BY DEF DeadLoads
<1> QED
  BY <1>1 DEF Recover, Looks

LEMMA LoadsEnd == LoadResults \subseteq Ends
<1>1. \A e : Recover(e) \in Ends
  BY DEF Recover, Ends
<1> QED
  BY <1>1 DEF LoadResults, LiveLoads, DeadLoads

-----------------------------------------------------------------------------
(* A call goes on, or returns.                                              *)

LEMMA GoesOn ==
    ASSUME ActionInv, ~action.dead, action.pc # "idle", UNCHANGED alive,
           PageTyped, NEW pc \in ActionPcs \ {"idle"}, NEW n \in Nat,
           Fits(pc, action.kind), UNCHANGED told,
           action' = [action EXCEPT !.pc = pc, !.seen = n]
    PROVE  /\ ActionInv' /\ action'.pc = pc
           /\ astray' = astray => Honest
           /\ pc \notin {"type", "send"} => LeadsComposer'
<1>1. action \in Call /\ told \in Told /\ alive \in BOOLEAN
  BY ActionTypes DEF ActionInv
<1>2. /\ action' \in Call /\ action'.pc = pc /\ action'.kind = action.kind
      /\ action'.text = action.text /\ action'.dead = action.dead
  BY <1>1 DEF Call
<1>3. ActionTypeOK'
  BY <1>1, <1>2, ActionTypesNext
<1>4. Fits(action.pc, action.kind)' /\ DeadStays' /\ DeadSessionIsReported'
  BY <1>2 DEF ActionInv, Fits, DeadStays, DeadSessionIsReported
<1>5. ActionInv'
  BY <1>2, <1>3, <1>4 DEF ActionInv
<1> QED
  BY <1>2, <1>5 DEF Honest, LeadsComposer

LEMMA GoesKeeps ==
    ASSUME ActionInv, ~action.dead, action.pc # "idle", UNCHANGED alive,
           PageTyped, NEW pc \in ActionPcs \ {"idle"},
           Fits(pc, action.kind), Goes(pc)
    PROVE  /\ ActionInv' /\ action'.pc = pc
           /\ astray' = astray => Honest
           /\ pc \notin {"type", "send"} => LeadsComposer'
<1>1. action \in Call
  BY ActionTypes DEF ActionInv
<1>2. /\ action.seen \in Nat /\ told' = told
      /\ action' = [action EXCEPT !.pc = pc, !.seen = action.seen]
  BY <1>1 DEF Call, Goes
<1> QED
  BY <1>2, GoesOn

LEMMA ReturnsKeeps ==
    ASSUME ActionInv, action.pc # "idle", UNCHANGED alive, PageTyped,
           NEW end \in Ends, Returns(end),
           action.dead => end \in {"stale", "raised"}
    PROVE  /\ ActionInv' /\ LeadsComposer'
           /\ (astray' = astray /\ (end = "ok" => Done(action.kind)) => Honest)
<1>1. action \in Call /\ alive \in BOOLEAN
  BY ActionTypes DEF ActionInv
<1>2. /\ action'.pc = "idle" /\ action'.kind = "visit"
      /\ action'.dead = FALSE /\ action' \in Call
  BY DEF Returns, IdleAction, Call, ActionPcs, ActionKinds
<1>3. /\ told' \in Told /\ told'.kind = action.kind
      /\ told'.text = action.text /\ told'.dead = action.dead
      /\ told'.end = Flagged(action.kind, end)
  BY <1>1 DEF Returns, Flagged, Told, Call, Ends
<1>4. ActionTypeOK'
  BY <1>1, <1>2, <1>3, ActionTypesNext
<1>5. Fits(action.pc, action.kind)' /\ DeadStays' /\ LeadsComposer'
  BY <1>2 DEF Fits, DeadStays, LeadsComposer
<1>6. DeadSessionIsReported'
  BY <1>3 DEF DeadSessionIsReported, Flagged
<1>7. astray' = astray /\ (end = "ok" => Done(action.kind)) => Honest
  <2>1. SUFFICES ASSUME astray' = astray, end = "ok", Done(action.kind)
                 PROVE  Honest
    BY <1>3 DEF Honest, Flagged
  <2>2. action.kind \in {"visit", "like", "visit_like", "connect", "message"}
    BY <1>1 DEF Call, ActionKinds
  <2> QED
    BY <1>3, <2>1, <2>2 DEF Honest, Done
<1> QED
  BY <1>2, <1>4, <1>5, <1>6, <1>7 DEF ActionInv

-----------------------------------------------------------------------------
(* Every step of a call.                                                     *)

ActionKeeps ==
    ActionInv' /\ (~LostClicks /\ LeadsComposer => LeadsComposer' /\ Honest)

LEMMA PageRests ==
    ASSUME ActionInv, LinkedInStays, PageStays
    PROVE  PageTyped /\ astray' = astray
BY ActionTypes DEF ActionInv, LinkedInStays, PageStays, PageTyped

LEMMA NotDead ==
    ASSUME ActionInv, action.pc # "load"
    PROVE  ~action.dead
BY DEF ActionInv, DeadStays

\* Calls that only look before they return.
LEMMA LooksReturns ==
    ASSUME ActionInv, Reads, action.pc \notin {"idle", "load"},
           \/ Returns("error") \/ Returns("already") \/ Returns("skipped")
           \/ Returns("restricted")
           \/ Returns("ok") /\ Done(action.kind)
    PROVE  ActionKeeps
<1>1. PageTyped /\ astray' = astray /\ UNCHANGED alive /\ ~action.dead
  BY PageRests, NotDead DEF Reads, ActionFrame
<1>2. {"error", "already", "skipped", "restricted", "ok"} \subseteq Ends
  BY DEF Ends
<1>3. CASE Returns("ok")
  BY <1>1, <1>2, <1>3, ReturnsKeeps DEF ActionKeeps
<1>4. CASE Returns("error")
  BY <1>1, <1>2, <1>4, ReturnsKeeps DEF ActionKeeps
<1>5. CASE Returns("already")
  BY <1>1, <1>2, <1>5, ReturnsKeeps DEF ActionKeeps
<1>6. CASE Returns("skipped")
  BY <1>1, <1>2, <1>6, ReturnsKeeps DEF ActionKeeps
<1>7. CASE Returns("restricted")
  BY <1>1, <1>2, <1>7, ReturnsKeeps DEF ActionKeeps
<1> QED
  BY <1>3, <1>4, <1>5, <1>6, <1>7

LEMMA LoadStep ==
    ASSUME ActionInv, LoadPage \/ (\E l \in Ends : LoadFails(l)) \/ ActionRaises
    PROVE  ActionKeeps
<1>1. ActionTypeOK /\ action \in Call /\ UNCHANGED alive
  BY ActionTypes
  DEF ActionInv, LoadPage, LoadFails, ActionRaises, ActionFrame, Reads
<1>2. CASE LoadPage
  <2>1. /\ action.pc \in {"load", "feed"} /\ LinkedInStays
        /\ tabs' \in {<<>>, <<[to |-> "other", ready |-> TRUE]>>}
        /\ dialog' = "closed" /\ "ok" \in LoadResults
    BY <1>2 DEF LoadPage
  <2>2. tabs' \in Seq(Composer)
    <3> DEFINE c == [to |-> "other", ready |-> TRUE]
    <3>1. c \in Composer
      BY DEF Composer
    <3>2. tabs' = <<>> \/ tabs' = <<c>>
      BY <2>1
    <3> HIDE DEF c
    <3>3. <<>> \in Seq(Composer) /\ <<c>> \in Seq(Composer)
      BY <3>1
    <3> QED
      BY <3>2, <3>3
  <2>3. PageTyped /\ astray' = astray
    BY <1>1, <2>1, <2>2, ActionTypes DEF PageTyped, LinkedInStays
  <2>4. ~action.dead
    BY <2>1, DeadLoadsAreStale DEF LoadResults, ActionInv, DeadStays
  <2>5. CASE action.kind = "visit"
    <3>1. Returns("ok") /\ "ok" \in Ends /\ Done(action.kind)
      BY <1>2, <2>5 DEF LoadPage, Ends, Done
    <3> QED
      BY <1>1, <2>1, <2>3, <2>4, <3>1, ReturnsKeeps DEF ActionKeeps
  <2>6. CASE action.kind # "visit"
    <3> DEFINE pc == AfterLoad(action.pc, action.kind)
    <3>1. Goes(pc)
      BY <1>2, <2>6 DEF LoadPage
    <3>2. /\ pc \in {"find", "feed", "connect", "button"}
          /\ Fits(pc, action.kind)
      BY <1>1, <2>1, <2>6
      DEF AfterLoad, Fits, ActionInv, Call, ActionKinds
    <3> HIDE DEF pc
    <3>3. pc \in ActionPcs \ {"idle"} /\ pc \notin {"type", "send"}
      BY <3>2 DEF ActionPcs
    <3> QED
      BY <1>1, <2>1, <2>3, <2>4, <3>1, <3>2, <3>3, GoesKeeps DEF ActionKeeps
  <2> QED
    BY <2>5, <2>6
<1>3. CASE \E l \in Ends : LoadFails(l)
  <2>1. PICK l \in Ends : LoadFails(l)
    BY <1>3
  <2>2. /\ action.pc \in {"load", "feed", "direct"} /\ l \in LoadResults
        /\ l # "ok" /\ Returns(l) /\ PageTyped /\ astray' = astray
    BY <2>1, PageRests DEF LoadFails, Reads
  <2>3. action.dead => l = "stale"
    BY <2>2, DeadLoadsAreStale DEF LoadResults, ActionInv, DeadStays
  <2> QED
    BY <1>1, <2>2, <2>3, ReturnsKeeps DEF ActionKeeps
<1>4. CASE ActionRaises
  <2>1. /\ action.pc # "idle" /\ Returns("raised") /\ "raised" \in Ends
        /\ PageTyped /\ astray' = astray
    BY <1>4, PageRests DEF ActionRaises, Reads, Ends
  <2> QED
    BY <1>1, <2>1, ReturnsKeeps DEF ActionKeeps
<1> QED
  BY <1>2, <1>3, <1>4

LEMMA LikeStep ==
    ASSUME ActionInv,
           NothingToLike \/ ClickLike \/ LikeVerified \/ LikeUnverified
    PROVE  ActionKeeps
<1>1. ActionTypeOK /\ action.pc \in {"find", "check", "again"}
  BY DEF ActionInv, NothingToLike, ClickLike, LikeVerified, LikeUnverified
<1>2. action.kind \in {"like", "visit_like"}
  BY <1>1 DEF ActionInv, Fits
<1>3. CASE NothingToLike \/ LikeUnverified
  BY <1>1, <1>3, LooksReturns DEF NothingToLike, LikeUnverified
<1>4. CASE LikeVerified
  <2>1. Done(action.kind)
    BY <1>1, <1>2, <1>4, ActionTypes
    DEF Done, LikeVerified, LikeShown, Reads, LinkedInStays
  <2> QED
    BY <1>1, <1>4, <2>1, LooksReturns DEF LikeVerified
<1>5. CASE ClickLike
  <2>1. PageTyped /\ astray' = astray /\ UNCHANGED alive
    BY <1>1, <1>5, ActionTypes
    DEF ClickLike, PageStays, PageTyped, ActionFrame
  <2>2. Goes("check") \/ Goes("again")
    BY <1>5 DEF ClickLike
  <2>3. {"check", "again"} \subseteq ActionPcs
    BY DEF ActionPcs
  <2>4. Fits("check", action.kind) /\ Fits("again", action.kind)
    BY <1>2 DEF Fits
  <2> QED
    BY <1>1, <2>1, <2>2, <2>3, <2>4, NotDead, GoesKeeps DEF ActionKeeps
<1> QED
  BY <1>3, <1>4, <1>5

LEMMA InviteStep ==
    ASSUME ActionInv,
           \/ InvitePending \/ FindConnect \/ ConnectMissing \/ NotSubmitted
           \/ SubmitInvite \/ InviteSent \/ InviteUnconfirmed
    PROVE  ActionKeeps
<1>1. ActionTypeOK /\ action.pc \in {"connect", "submit", "sent"}
  BY DEF ActionInv, InvitePending, FindConnect, ConnectMissing, NotSubmitted,
         SubmitInvite, InviteSent, InviteUnconfirmed
<1>2. action.kind = "connect" /\ ~action.dead
  BY <1>1, NotDead DEF ActionInv, Fits
<1>3. CASE InvitePending \/ NotSubmitted \/ InviteUnconfirmed
  BY <1>1, <1>3, LooksReturns
  DEF InvitePending, NotSubmitted, InviteUnconfirmed
<1>4. CASE InviteSent
  <2>1. Done(action.kind)
    BY <1>2, <1>4
    DEF Done, InviteSent, InviteConfirmed, Reads, LinkedInStays, PageStays
  <2> QED
    BY <1>1, <1>4, <2>1, LooksReturns DEF InviteSent
<1>5. CASE ConnectMissing
  <2>1. PageTyped /\ astray' = astray /\ UNCHANGED alive
    BY <1>1, <1>5, ActionTypes
    DEF ConnectMissing, PageStays, PageTyped, ActionFrame
  <2>2. Returns("already") \/ Returns("error")
    BY <1>5 DEF ConnectMissing
  <2>3. {"already", "error"} \subseteq Ends
    BY DEF Ends
  <2> QED
    BY <1>1, <1>2, <2>1, <2>2, <2>3, ReturnsKeeps DEF ActionKeeps
<1>6. CASE FindConnect \/ SubmitInvite
  <2>1. PageTyped /\ astray' = astray /\ UNCHANGED alive
    BY <1>1, <1>6, ActionTypes
    DEF FindConnect, SubmitInvite, PageTyped, ActionFrame
  <2>2. Goes("submit") \/ Goes("sent")
    BY <1>6 DEF FindConnect, SubmitInvite
  <2>3. {"submit", "sent"} \subseteq ActionPcs
    BY DEF ActionPcs
  <2>4. Fits("submit", action.kind) /\ Fits("sent", action.kind)
    BY <1>2 DEF Fits
  <2> QED
    BY <1>1, <1>2, <2>1, <2>2, <2>3, <2>4, GoesKeeps DEF ActionKeeps
<1> QED
  BY <1>3, <1>4, <1>5, <1>6

\* The composer with the greatest index is the box.
LEMMA BoxIsLast ==
    ASSUME tabs \in Seq(Composer), tabs # <<>>, tabs[Len(tabs)].to = "lead"
    PROVE  Box = Len(tabs)
<1>1. Len(tabs) \in Addressed /\ \A i \in Addressed : i \in 1..Len(tabs)
  BY DEF Addressed
<1>2. \A i \in Addressed : (\A j \in Addressed : j <= i) <=> i = Len(tabs)
  BY <1>1
<1> QED
  BY <1>1, <1>2 DEF Box

LEMMA OpenStep ==
    ASSUME ActionInv, OpenOnProfile \/ OpenLost \/ NoMessageButton \/ OpenDirect
    PROVE  ActionKeeps
<1>1. /\ ActionTypeOK /\ action.pc \in {"button", "direct"} /\ UNCHANGED alive
      /\ tabs \in Seq(Composer)
  BY ActionTypes DEF ActionInv, OpenOnProfile, OpenLost, NoMessageButton,
     OpenDirect, Reads, ActionFrame
<1>2. action.kind = "message" /\ ~action.dead
  BY <1>1, NotDead DEF ActionInv, Fits
<1>3. {"direct", "type"} \subseteq ActionPcs \ {"idle"}
      /\ Fits("direct", action.kind) /\ Fits("type", action.kind)
  BY <1>2 DEF ActionPcs, Fits
<1>4. CASE NoMessageButton
  BY <1>1, <1>2, <1>3, <1>4, PageRests, GoesKeeps
  DEF NoMessageButton, Reads, ActionKeeps
<1>5. CASE OpenLost
  <2>1. PageTyped /\ astray' = astray
    BY <1>5, PageRests DEF OpenLost, Reads
  <2>2. Goes("direct") \/ (LostClicks /\ Goes("type"))
    BY <1>5 DEF OpenLost
  <2> QED
    BY <1>1, <1>2, <1>3, <2>1, <2>2, GoesKeeps DEF ActionKeeps
<1>6. CASE OpenOnProfile
  <2> DEFINE c == [to |-> "lead", ready |-> FALSE]
  <2>1. c \in Composer /\ c.to = "lead" /\ tabs' = Append(tabs, c)
    BY <1>6 DEF Composer, OpenOnProfile
  <2> HIDE DEF c
  <2>2. /\ tabs' \in Seq(Composer) /\ tabs' # <<>>
        /\ tabs'[Len(tabs')].to = "lead"
    BY <1>1, <2>1
  <2>3. PageTyped /\ astray' = astray /\ Goes("type")
    BY <1>1, <1>6, <2>2, ActionTypes
    DEF PageTyped, OpenOnProfile, LinkedInStays
  <2> QED
    BY <1>1, <1>2, <1>3, <2>2, <2>3, GoesKeeps DEF ActionKeeps, LeadsComposer
<1>7. CASE OpenDirect
  <2>1. PICK who \in {"lead", "nobody"} :
          /\ tabs' = <<[to |-> who, ready |-> FALSE]>>
          /\ IF who = "lead" THEN Goes("type") ELSE Returns("error")
    BY <1>7 DEF OpenDirect
  <2> DEFINE c == [to |-> who, ready |-> FALSE]
  <2>2. c \in Composer /\ c.to = who /\ tabs' = <<c>>
    BY <2>1 DEF Composer
  <2> HIDE DEF c
  <2>3. /\ tabs' \in Seq(Composer) /\ tabs' # <<>>
        /\ tabs'[Len(tabs')].to = who
    BY <2>2
  <2>4. PageTyped /\ astray' = astray
    BY <1>1, <1>7, <2>3, ActionTypes DEF PageTyped, OpenDirect, LinkedInStays
  <2>5. CASE who = "lead"
    BY <1>1, <1>2, <1>3, <2>1, <2>3, <2>4, <2>5, GoesKeeps
    DEF ActionKeeps, LeadsComposer
  <2>6. CASE who = "nobody"
    <3>1. Returns("error") /\ "error" \in Ends
      BY <2>1, <2>6 DEF Ends
    <3> QED
      BY <1>1, <1>2, <2>4, <3>1, ReturnsKeeps DEF ActionKeeps
  <2> QED
    BY <2>5, <2>6
<1> QED
  BY <1>4, <1>5, <1>6, <1>7

LEMMA SendStep ==
    ASSUME ActionInv,
           \/ TypeDraft \/ DraftLost \/ NoSendButton \/ Submit \/ BubbleAppears
           \/ SendRefused \/ ComposerCleared \/ VerifyInThread
    PROVE  ActionKeeps
<1>1. /\ ActionTypeOK /\ action.pc \in {"type", "send", "confirm", "verify"}
      /\ action \in Call /\ tabs \in Seq(Composer)
  BY ActionTypes DEF ActionInv, TypeDraft, DraftLost, NoSendButton, Submit,
     BubbleAppears, SendRefused, ComposerCleared, VerifyInThread
<1>2. action.kind = "message" /\ ~action.dead /\ action.text \in Texts
  BY <1>1, NotDead DEF ActionInv, Fits
<1>3. thread[action.text] \in Nat /\ action.seen \in Nat
  BY <1>1, <1>2, ActionTypes DEF Call
<1>4. CASE DraftLost \/ NoSendButton \/ SendRefused
  BY <1>1, <1>4, LooksReturns DEF DraftLost, NoSendButton, SendRefused
<1>5. CASE BubbleAppears
  <2>1. Done(action.kind)
    BY <1>2, <1>3, <1>5 DEF Done, BubbleAppears, Reads, LinkedInStays
  <2> QED
    BY <1>1, <1>5, <2>1, LooksReturns DEF BubbleAppears
<1>6. CASE VerifyInThread
  <2>1. ThreadShows => Done(action.kind)
    BY <1>2, <1>6 DEF Done, ThreadShows, VerifyInThread, Reads, LinkedInStays
  <2> QED
    BY <1>1, <1>6, <2>1, LooksReturns DEF VerifyInThread
<1>7. CASE ComposerCleared
  <2>1. PageTyped /\ astray' = astray /\ Goes("verify") /\ UNCHANGED alive
    BY <1>1, <1>7, ActionTypes
    DEF ComposerCleared, PageTyped, LinkedInStays, ActionFrame
  <2>2. "verify" \in ActionPcs \ {"idle"} /\ Fits("verify", action.kind)
    BY <1>2 DEF ActionPcs, Fits
  <2> QED
    BY <1>1, <1>2, <2>1, <2>2, GoesKeeps DEF ActionKeeps
<1>8. CASE TypeDraft
  <2>1. PICK n \in 0..thread[action.text] :
          action' = [action EXCEPT !.pc = "send", !.seen = n]
    BY <1>8 DEF TypeDraft
  <2>2. action.pc = "type" /\ Addressed # {} /\ UNCHANGED <<told, alive>>
    BY <1>8 DEF TypeDraft, ActionFrame
  <2>6. n \in Nat
    BY <1>3, <2>1
  <2>3. tabs' \in Seq(Composer) /\ (LeadsComposer => LeadsComposer')
    <3>1. CASE tabs' = tabs
      BY <1>1, <2>2, <3>1 DEF LeadsComposer
    <3>2. CASE tabs' = [tabs EXCEPT ![Box].ready = TRUE]
      <4> DEFINE b == Box
                 d == [tabs[b] EXCEPT !.ready = TRUE]
      <4>1. tabs' = [tabs EXCEPT ![b] = d]
        BY <3>2
      <4>5. \A x \in Composer : /\ [x EXCEPT !.ready = TRUE] \in Composer
                                /\ [x EXCEPT !.ready = TRUE].to = x.to
        BY DEF Composer
      <4>6. b \in DOMAIN tabs => tabs[b] \in Composer
        BY <1>1
      <4>2. b \in DOMAIN tabs => d \in Composer /\ d.to = tabs[b].to
        BY <4>5, <4>6
      <4> HIDE DEF b, d
      <4>3. CASE b \in DOMAIN tabs
        <5>1. /\ tabs' \in Seq(Composer) /\ Len(tabs') = Len(tabs)
              /\ \A k \in 1..Len(tabs) : tabs'[k].to = tabs[k].to
          BY <1>1, <4>1, <4>2, <4>3
        <5> QED
          BY <1>1, <2>2, <5>1 DEF LeadsComposer
      <4>4. CASE b \notin DOMAIN tabs
        <5>1. tabs' = tabs
          BY <1>1, <4>1, <4>4
        <5> QED
          BY <1>1, <2>2, <5>1 DEF LeadsComposer
      <4> QED
        BY <4>3, <4>4
    <3> QED
      BY <1>8, <3>1, <3>2 DEF TypeDraft
  <2>4. PageTyped /\ astray' = astray
    BY <1>1, <1>8, <2>3, ActionTypes DEF PageTyped, TypeDraft, LinkedInStays
  <2>5. "send" \in ActionPcs \ {"idle"} /\ Fits("send", action.kind)
    BY <1>2 DEF ActionPcs, Fits
  <2> QED
    BY <1>1, <1>2, <2>1, <2>2, <2>3, <2>4, <2>5, <2>6, GoesOn
    DEF ActionKeeps
<1>9. CASE Submit
  <2>1. /\ Goes("confirm") /\ UNCHANGED alive
        /\ action.pc = "send"
    BY <1>9 DEF Submit, ActionFrame
  <2>2. PICK i \in SendButtons :
          \/ /\ alive /\ tabs[i].to = "lead" /\ UNCHANGED astray
             /\ thread' = [thread EXCEPT ![action.text] = @ + 1]
          \/ /\ alive /\ tabs[i].to # "lead" /\ UNCHANGED thread
             /\ astray' = astray + 1
          \/ UNCHANGED <<thread, astray>>
    BY <1>9 DEF Submit
  <2>3. PageTyped
    BY <1>1, <1>3, <1>9, <2>2, ActionTypes DEF PageTyped, Submit, PageStays
  <2>4. LeadsComposer => astray' = astray
    BY <1>1, <2>1, <2>2, BoxIsLast DEF LeadsComposer, SendButtons
  <2>5. "confirm" \in ActionPcs \ {"idle"} /\ Fits("confirm", action.kind)
    BY <1>2 DEF ActionPcs, Fits
  <2> QED
    BY <1>1, <1>2, <2>1, <2>3, <2>4, <2>5, GoesKeeps DEF ActionKeeps
<1> QED
  BY <1>4, <1>5, <1>6, <1>7, <1>8, <1>9

LEMMA OutsideStep ==
    ASSUME ActionInv,
           \/ \E k \in ActionKinds, t \in Texts \cup {NoText} : StartAction(k, t)
           \/ SessionDies \/ SessionRenewed \/ LeadAnswers
           \/ UNCHANGED actionVars
    PROVE  ActionKeeps
<1>1. ActionTypeOK /\ action \in Call /\ told \in Told
  BY ActionTypes DEF ActionInv
<1>2. CASE \E k \in ActionKinds, t \in Texts \cup {NoText} : StartAction(k, t)
  <2>1. PICK k \in ActionKinds, t \in Texts \cup {NoText} : StartAction(k, t)
    BY <1>2
  <2>2. /\ action.pc = "idle" /\ UNCHANGED <<alive, told, astray>>
        /\ action' = [pc |-> "load", kind |-> k, seen |-> 0, dead |-> ~alive,
                      text |-> t]
        /\ k = "message" => t \in Texts
        /\ LinkedInStays /\ PageStays
    BY <2>1 DEF StartAction, LinkedInStays
  <2>3. /\ action' \in Call /\ action'.pc = "load" /\ action'.kind = k
        /\ action'.text = t /\ action'.dead = ~alive
    BY <2>2 DEF Call, ActionPcs
  <2>4. ActionTypeOK'
    BY <1>1, <2>2, <2>3, PageRests, ActionTypes, ActionTypesNext DEF ActionInv
  <2>5. DeadStays' /\ Fits(action.pc, action.kind)' /\ DeadSessionIsReported'
    BY <2>2, <2>3 DEF DeadStays, Fits, DeadSessionIsReported, ActionInv
  <2> QED
    BY <2>2, <2>3, <2>4, <2>5
    DEF ActionKeeps, ActionInv, LeadsComposer, Honest
<1>3. CASE SessionDies \/ SessionRenewed \/ LeadAnswers \/ UNCHANGED actionVars
  <2>1. UNCHANGED <<action, told, astray, tabs>>
    BY <1>3 DEF SessionDies, SessionRenewed, LeadAnswers, ActionFrame,
       PageStays, LinkedInStays, actionVars
  <2>2. alive' = alive \/ alive' = FALSE \/ action.pc = "idle"
    BY <1>3 DEF SessionDies, SessionRenewed, LeadAnswers, ActionFrame, actionVars
  <2>3. alive' \in BOOLEAN /\ PageTyped
    BY <1>1, <1>3, ActionTypes
    DEF SessionDies, SessionRenewed, LeadAnswers, ActionFrame, PageStays,
        LinkedInStays, PageTyped, actionVars
  <2>4. ActionTypeOK'
    BY <1>1, <2>1, <2>3, ActionTypesNext
  <2>5. DeadStays'
    BY <2>1, <2>2 DEF ActionInv, DeadStays
  <2> QED
    BY <2>1, <2>4, <2>5
    DEF ActionKeeps, ActionInv, LeadsComposer, Honest, DeadSessionIsReported,
        Fits
<1> QED
  BY <1>2, <1>3

LEMMA ActionsStep ==
    ASSUME ActionInv, [ActionsNext]_actionVars
    PROVE  ActionKeeps
BY LoadStep, LikeStep, InviteStep, OpenStep, SendStep, OutsideStep
DEF ActionsNext, ActionStep

LEMMA ActionsStart == ActionsInit => ActionInv /\ LeadsComposer
<1>1. IdleAction \in Call /\ NothingTold \in Told /\ NothingTold.dead = FALSE
      /\ IdleAction.pc = "idle" /\ IdleAction.dead = FALSE
      /\ IdleAction.kind = "visit"
  BY DEF IdleAction, NothingTold, Call, Told, ActionPcs, ActionKinds, Ends
<1>2. <<>> \in Seq(Composer)
  OBVIOUS
<1>3. ActionsInit => ActionTypeOK
  <2> SUFFICES ASSUME ActionsInit
               PROVE  ActionTypeOK
    OBVIOUS
  <2>1. thread \in [Texts -> Nat] /\ astray \in Nat
    BY DEF ActionsInit
  <2>2. tabs \in Seq(Composer) /\ action \in Call /\ told \in Told
    BY <1>1, <1>2 DEF ActionsInit
  <2>3. /\ bond \in {"none", "pending", "connected"}
        /\ offer \in {"card", "menu", "follow", "following", "nowhere"}
        /\ liked \in BOOLEAN /\ alive \in BOOLEAN
        /\ dialog \in {"closed", "open", "gated", "refused"}
    BY DEF ActionsInit
  <2> QED
    BY <2>1, <2>2, <2>3, ActionTypes
<1> QED
  BY <1>1, <1>3
  DEF ActionsInit, ActionInv, LeadsComposer, DeadStays, Fits,
      DeadSessionIsReported

\* An action that begins with a dead session reports it as stale, whatever
\* the page shows in its place: recover_blank_page (utils.py) has no other
\* answer to it.
THEOREM DeadSessionIsReportedCorrect == ActionsSpec => []DeadSessionIsReported
<1>1. ActionInv /\ [ActionsNext]_actionVars => ActionInv'
  BY ActionsStep DEF ActionKeeps
<1>2. ActionInv => DeadSessionIsReported
  BY DEF ActionInv
<1> QED
  BY <1>1, <1>2, ActionsStart, PTL DEF ActionsSpec

\* As long as a click on Message opens its composer or nothing is open yet,
\* what an action reports as done is done, and no message goes to anybody but
\* the lead.
THEOREM ReportedIsDoneCorrect ==
    ASSUME ~LostClicks
    PROVE  ActionsSpec => ReportedIsDone
<1> DEFINE Inv == ActionInv /\ LeadsComposer
<1>1. Inv /\ [ActionsNext]_actionVars => Inv' /\ [Honest]_actionVars
  BY ActionsStep DEF ActionKeeps
<1>2. ActionsInit => Inv
  BY ActionsStart
<1> HIDE DEF Inv
<1>3. ActionsSpec => [][Honest]_actionVars
  BY <1>1, <1>2, PTL DEF ActionsSpec
<1> QED
  BY <1>3 DEF ReportedIsDone, Honest
=============================================================================
