---------------------------- MODULE ProfileLocks ----------------------------
(***************************************************************************)
(* The Redis lock of a browser profile (worker/profile_lock.py).  Two      *)
(* Chromium processes must never open one user-data directory, and the     *)
(* directory is reached from Celery workers and from the API process.  A   *)
(* holder stands for one acquisition: the token that redis-py writes.      *)
(***************************************************************************)
CONSTANTS Profiles, NoHolder

VARIABLE profileLock    \* the token in Redis, by profile

LocksInit == profileLock = [p \in Profiles |-> NoHolder]

LockFree(p)      == profileLock[p] = NoHolder
LockHeldBy(p, h) == profileLock[p] = h

MutAcquireLock(p, h) == profileLock' = [profileLock EXCEPT ![p] = h]
AcquireLock(p, h) ==
    /\ LockFree(p)
    /\ profileLock' = [profileLock EXCEPT ![p] = h]

\* lock.release() is a compare-and-delete, and never raises.
ReleaseLock(p, h) ==
    profileLock' = IF LockHeldBy(p, h)
                   THEN [profileLock EXCEPT ![p] = NoHolder] ELSE profileLock

\* Deletes the key whoever owns it.
ForceReleaseLock(p) == profileLock' = [profileLock EXCEPT ![p] = NoHolder]

LockExpires(p) ==
    /\ ~LockFree(p)
    /\ profileLock' = [profileLock EXCEPT ![p] = NoHolder]
=============================================================================
