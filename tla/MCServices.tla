------------------------------ MODULE MCServices ------------------------------
(***************************************************************************)
(* The components that meet only through the profile lock, each checked on *)
(* its own: part says which one moves, the others rest.                    *)
(***************************************************************************)
EXTENDS InteractiveLogins, FeedScans, LinkedInActions

CONSTANTS r1, r2, s1, o1, e1, e2, j1

VARIABLE part

\* One complete card, one without author, one more wrapper of the first post.
Card(p, t, l, a) == [post |-> p, text |-> t, permalink |-> l, profile |-> a]
Cards == {Card("p", TRUE, TRUE, TRUE), Card("q", TRUE, TRUE, FALSE),
          Card("p", TRUE, FALSE, TRUE)}
FeedsOnOne == [j \in FeedJobs |-> 1]
OnlyFirst == {<<"p", "c1">>}

loginOnly == <<acct, dir, login, pending, other, stray, loginOps, apiRestarts>>
feedOnly == <<slotCount, feedJob, feedRow, feedApplied, feedLease, feedMsg,
              feedFound, feedTask, feedOps, feedCrashes>>

ServicesInit ==
    /\ part \in {"logins", "feed", "actions"}
    /\ LoginsInit /\ FeedInit /\ ActionsInit
    /\ part # "feed" =>
         feedJob = [j \in FeedJobs |-> [st |-> "absent", left |-> "none",
                                        crit |-> "c1", due |-> "none"]]
    /\ part # "actions" => bond = "none" /\ offer = "card"

ServicesNext ==
    /\ UNCHANGED part
    /\ \/ part = "logins" /\ LoginsNext /\ UNCHANGED <<feedOnly, actionVars>>
       \/ part = "feed" /\ FeedNext /\ UNCHANGED <<loginOnly, actionVars>>
       \/ part = "actions" /\ ActionsNext
          /\ UNCHANGED <<profileLock, loginOnly, feedOnly>>

ServicesSpec ==
    /\ ServicesInit
    /\ [][ServicesNext]_<<loginVars, feedVars, actionVars, part>>
    /\ LoginsFairness /\ FeedFairness
=============================================================================
