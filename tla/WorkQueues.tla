----------------------------- MODULE WorkQueues -----------------------------
(***************************************************************************)
(* What the queue pages do to the work of Celery: api/v1/system_queues.py  *)
(* (any user) and the stale-task pages of api/v1/admin.py.  A job is an    *)
(* account with an active campaign, a feed job or a WhatsApp filter; Beat  *)
(* sends one leased task for each that is due, a worker reserves tasks     *)
(* before it runs them and takes the lock of the job's browser profile.    *)
(* The pages inspect, revoke, purge and delete under all that.             *)
(***************************************************************************)
EXTENDS Integers, FiniteSets

CONSTANTS Jobs, Owners, OwnerOf,
          TaskIds,      \* Celery's task ids; a lease's token is its task's id
          NoTask,       \* no lease, or a lock that nobody holds
          Orphan,       \* a lock whose holder died
          Admin,        \* the scope of an administrator: every owner
          Pages,        \* the operations of the pages that are used
          MaxPageOps,   \* bound: operations of owners and pages
          MaxDeaths     \* bound: workers that die

ASSUME WorkAssumption ==
    /\ OwnerOf \in [Jobs -> Owners]
    /\ NoTask \notin TaskIds /\ Orphan \notin TaskIds \cup {NoTask}
    /\ Admin \notin Owners
    /\ MaxPageOps \in Nat /\ MaxDeaths \in Nat

VARIABLES work,      \* the rows: is the job active, is it due
          hold,      \* the dispatch leases
          task,      \* the tasks in the broker, reserved or running
          revoked,   \* ids the worker was told to discard
          busy,      \* the profile or session locks
          cleanup,   \* the clean-up under way
          pageOps, deaths

workVars == <<work, hold, task, revoked, busy, cleanup, pageOps, deaths>>

NoTaskData == [job |-> CHOOSE j \in Jobs : TRUE, forced |-> FALSE,
               place |-> "none"]
NoCleanup  == [pc |-> "idle", by |-> Admin, active |-> {}, seen |-> {}]

WorkTypeOK ==
    /\ work \in [Jobs -> [active : BOOLEAN, due : BOOLEAN]]
    /\ hold \in [Jobs -> TaskIds \cup {NoTask}]
    /\ task \in [TaskIds -> [job : Jobs, forced : BOOLEAN,
                    place : {"none", "broker", "reserved", "running"}]]
    /\ revoked \subseteq TaskIds
    /\ busy \in [Jobs -> TaskIds \cup {NoTask, Orphan}]
    /\ cleanup \in [pc : {"idle", "inspect", "revoke", "sweep"},
                    by : Owners \cup {Admin}, active : SUBSET Jobs,
                    seen : SUBSET TaskIds]

WorkInit ==
    /\ work = [j \in Jobs |-> [active |-> FALSE, due |-> FALSE]]
    /\ hold = [j \in Jobs |-> NoTask]
    /\ task = [t \in TaskIds |-> NoTaskData]
    /\ revoked = {}
    /\ busy = [j \in Jobs |-> NoTask]
    /\ cleanup = NoCleanup
    /\ pageOps = 0 /\ deaths = 0

In(place) == {t \in TaskIds : task[t].place = place}
Move(t, place) == task' = [task EXCEPT ![t].place = place]
\* A task that is over is forgotten.
Over(S) ==
    /\ task' = [t \in TaskIds |-> IF t \in S THEN NoTaskData ELSE task[t]]
    /\ revoked' = revoked \ S
FreshIds == {t \in In("none") : t \notin cleanup.seen
                                /\ \A j \in Jobs : hold[j] # t}
ReleaseHold(t) ==
    hold' = [j \in Jobs |-> IF hold[j] = t THEN NoTask ELSE hold[j]]

Page(op) == op \in Pages /\ pageOps < MaxPageOps /\ pageOps' = pageOps + 1

-----------------------------------------------------------------------------
(* Owners, Beat and the workers.                                           *)

ActivateWork(j) ==
    /\ ~work[j].active /\ Page("activate")
    /\ work' = [work EXCEPT ![j] = [active |-> TRUE, due |-> TRUE]]
    /\ UNCHANGED <<hold, task, revoked, busy, cleanup, deaths>>

\* Pausing deletes the lease, whoever owns it, when Redis can be reached.
DeactivateWork(j) ==
    /\ work[j].active /\ Page("deactivate")
    /\ work' = [work EXCEPT ![j].active = FALSE]
    /\ hold' \in {hold, [hold EXCEPT ![j] = NoTask]}
    /\ UNCHANGED <<task, revoked, busy, cleanup, deaths>>

\* A scan by hand carries no lease and ignores the schedule.
ForceWork(j) ==
    /\ Page("force")
    /\ \E t \in FreshIds :
         task' = [task EXCEPT ![t] = [job |-> j, forced |-> TRUE,
                                      place |-> "broker"]]
    /\ UNCHANGED <<work, hold, revoked, busy, cleanup, deaths>>

NextDue(j) ==
    /\ work[j].active /\ ~work[j].due
    /\ work' = [work EXCEPT ![j].due = TRUE]
    /\ UNCHANGED <<hold, task, revoked, busy, cleanup, pageOps, deaths>>

DispatchWork(j) ==
    /\ work[j].active /\ work[j].due
    /\ hold[j] = NoTask
    /\ \E t \in FreshIds :
         /\ hold' = [hold EXCEPT ![j] = t]
         /\ task' = [task EXCEPT ![t] = [job |-> j, forced |-> FALSE,
                                         place |-> "broker"]]
    /\ UNCHANGED <<work, revoked, busy, cleanup, pageOps, deaths>>

WorkerFrame == UNCHANGED <<cleanup, pageOps, deaths>>

ReserveTask(t) ==
    /\ t \in In("broker")
    /\ Move(t, "reserved")
    /\ UNCHANGED <<work, hold, revoked, busy>> /\ WorkerFrame

\* The worker discards a revoked task; its lease stays.
DiscardTask(t) ==
    /\ t \in In("reserved") \cap revoked
    /\ Over({t})
    /\ UNCHANGED <<work, hold, busy>> /\ WorkerFrame

StillWanted(t) ==
    LET j == task[t].job IN
    /\ work[j].active
    /\ task[t].forced \/ work[j].due

StartTask(t) ==
    /\ t \in In("reserved") \ revoked
    /\ StillWanted(t) /\ busy[task[t].job] = NoTask
    /\ Move(t, "running")
    /\ busy' = [busy EXCEPT ![task[t].job] = t]
    /\ UNCHANGED <<work, hold, revoked>> /\ WorkerFrame

SkipTask(t) ==
    /\ t \in In("reserved") \ revoked
    /\ ~StillWanted(t) \/ busy[task[t].job] # NoTask
    /\ Over({t}) /\ ReleaseHold(t)
    /\ UNCHANGED <<work, busy>> /\ WorkerFrame

Unlock(t, holder) ==
    busy' = [j \in Jobs |-> IF busy[j] = t THEN holder ELSE busy[j]]

EndTask(t) ==
    /\ t \in In("running")
    /\ work' = [work EXCEPT ![task[t].job].due =
                    IF work[task[t].job].active THEN FALSE ELSE @]
    /\ Over({t}) /\ ReleaseHold(t) /\ Unlock(t, NoTask)
    /\ WorkerFrame

\* The message of a lost worker comes back.
TaskDies(t) ==
    /\ t \in In("running") /\ deaths < MaxDeaths
    /\ deaths' = deaths + 1
    /\ Move(t, "broker") /\ Unlock(t, Orphan)
    /\ UNCHANGED <<work, hold, revoked, cleanup, pageOps>>

\* A lease is set with its time to live in one command.
MutHasTTL(j) == task[hold[j]].place # "none"
HasTTL(j) == TRUE

HoldExpires(j) ==
    /\ hold[j] # NoTask /\ HasTTL(j)
    /\ hold' = [hold EXCEPT ![j] = NoTask]
    /\ UNCHANGED <<work, task, revoked, busy>> /\ WorkerFrame

OrphanExpires(j) ==
    /\ busy[j] = Orphan
    /\ busy' = [busy EXCEPT ![j] = NoTask]
    /\ UNCHANGED <<work, hold, task, revoked>> /\ WorkerFrame

-----------------------------------------------------------------------------
(* The pages.  A clean-up reads the active rows, asks the worker for its   *)
(* reserved tasks, revokes those of other jobs and then sweeps the leases. *)

ActiveFor(by) ==
    {j \in Jobs : work[j].active /\ (by = Admin \/ OwnerOf[j] = by)}

BeginCleanup(by) ==
    /\ cleanup.pc = "idle" /\ Page("cleanup")
    /\ cleanup' = [pc |-> "inspect", by |-> by, active |-> ActiveFor(by),
                   seen |-> {}]
    /\ UNCHANGED <<work, hold, task, revoked, busy, deaths>>

\* _celery_inspect: workers that do not answer show nothing.
InspectTasks ==
    /\ cleanup.pc = "inspect"
    /\ \E seen \in {{}, In("reserved")} :
         cleanup' = [cleanup EXCEPT !.pc = "revoke", !.seen = seen]
    /\ UNCHANGED <<work, hold, task, revoked, busy, pageOps, deaths>>

\* Without terminate a running task goes on.  A user's clean-up takes every
\* other owner's task for stale.
StaleTasks == {t \in cleanup.seen : /\ task[t].place # "none"
                                    /\ task[t].job \notin cleanup.active}

RevokeStale ==
    /\ cleanup.pc = "revoke"
    /\ revoked' = revoked \cup StaleTasks
    /\ cleanup' = [cleanup EXCEPT !.pc = "sweep", !.seen = {}]
    /\ UNCHANGED <<work, hold, task, busy, pageOps, deaths>>

\* The administrator's page reads the keys as bytes, whose text never is the
\* id of an active job: it deletes every lease.
Swept(j) == cleanup.by = Admin \/ j \notin cleanup.active

SweepLeases ==
    /\ cleanup.pc = "sweep"
    /\ hold' = [j \in Jobs |-> IF Swept(j) THEN NoTask ELSE hold[j]]
    /\ cleanup' = NoCleanup
    /\ UNCHANGED <<work, task, revoked, busy, pageOps, deaths>>

\* Whatever queue is named, control.purge empties all of them.
PurgeQueue ==
    /\ Page("purge")
    /\ Over(In("broker"))
    /\ UNCHANGED <<work, hold, busy, cleanup, deaths>>

\* A terminated task is not delivered again and releases nothing.
RevokeTask(t, terminate) ==
    /\ task[t].place # "none" /\ Page("revoke")
    /\ IF terminate /\ task[t].place = "running"
       THEN Over({t}) /\ Unlock(t, Orphan)
       ELSE /\ revoked' = revoked \cup {t}
            /\ UNCHANGED <<task, busy>>
    /\ UNCHANGED <<work, hold, cleanup, deaths>>

\* The locks of running sessions go as well.
ClearLocks ==
    /\ Page("locks")
    /\ busy' = [j \in Jobs |-> NoTask]
    /\ UNCHANGED <<work, hold, task, revoked, cleanup, deaths>>

\* Keys by name or by pattern; the list of the broker is a key, too.
DeleteKeys(leases, locks, broker) ==
    /\ Page("keys")
    /\ hold' = [j \in Jobs |-> IF j \in leases THEN NoTask ELSE hold[j]]
    /\ busy' = [j \in Jobs |-> IF j \in locks THEN NoTask ELSE busy[j]]
    /\ Over(IF broker THEN In("broker") ELSE {})
    /\ UNCHANGED <<work, cleanup, deaths>>

-----------------------------------------------------------------------------
GoOnCleanup == InspectTasks \/ RevokeStale \/ SweepLeases

PageStep ==
    \/ \E by \in Owners \cup {Admin} : BeginCleanup(by)
    \/ GoOnCleanup
    \/ PurgeQueue \/ ClearLocks
    \/ \E t \in TaskIds, terminate \in BOOLEAN : RevokeTask(t, terminate)
    \/ \E leases, locks \in SUBSET Jobs, broker \in BOOLEAN :
         DeleteKeys(leases, locks, broker)

TakeTask(t) == DiscardTask(t) \/ StartTask(t) \/ SkipTask(t)

WorkNext ==
    \/ \E j \in Jobs : ActivateWork(j) \/ DeactivateWork(j) \/ ForceWork(j)
                       \/ NextDue(j) \/ DispatchWork(j)
                       \/ HoldExpires(j) \/ OrphanExpires(j)
    \/ \E t \in TaskIds : ReserveTask(t) \/ TakeTask(t) \/ EndTask(t)
                          \/ TaskDies(t)
    \/ PageStep

\* Beat ticks, a worker takes what it has reserved and ends what it runs,
\* keys with a time to live expire.  A clean-up that has begun ends; beyond
\* that pages and owners owe nothing.
WorkFairness ==
    /\ WF_workVars(GoOnCleanup)
    /\ \A j \in Jobs : /\ SF_workVars(DispatchWork(j))
                       /\ WF_workVars(HoldExpires(j))
                       /\ WF_workVars(OrphanExpires(j))
    /\ \A t \in TaskIds :
         WF_workVars(ReserveTask(t) \/ TakeTask(t) \/ EndTask(t))

WorkSpec == WorkInit /\ [][WorkNext]_workVars /\ WorkFairness

-----------------------------------------------------------------------------
(* Properties *)

\* Whatever the pages revoke, purge and delete - also tasks and leases of
\* jobs that are active, which both clean-ups do - a due job is run in the
\* end, or its owner pauses it: no lease without a task blocks it for good.
DueIsWorkedOff ==
    \A j \in Jobs : (work[j].active /\ work[j].due)
                        ~> ~(work[j].active /\ work[j].due)

\* "A normal workspace user must not revoke another user's reserved task"
\* (system_queues.py).  Not so: see StaleTasks.
OwnTasksOnly ==
    [][cleanup.by # Admin /\ revoked' # revoked /\ cleanup.pc = "revoke"
         => \A t \in revoked' \ revoked :
                work[task[t].job].active => OwnerOf[task[t].job] = cleanup.by
      ]_workVars
=============================================================================
