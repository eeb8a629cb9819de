----------------------------- MODULE MCPublishing -----------------------------
(***************************************************************************)
(* The publisher and the calls it makes to the platforms, each checked on  *)
(* its own: part says which one moves, the other rests.                    *)
(***************************************************************************)
EXTENDS MCSocialPublisher, PlatformUploads

CONSTANTS u1, u2

VARIABLE part

PublishingInit ==
    /\ part \in {"posts", "uploads"}
    /\ Init /\ UploadsInit
    /\ part = "posts" => host = "youtube" /\ public

PublishingNext ==
    /\ UNCHANGED part
    /\ \/ part = "posts" /\ Next /\ UNCHANGED uploadVars
       \/ part = "uploads" /\ UploadsNext /\ UNCHANGED vars

PublishingSpec ==
    PublishingInit /\ [][PublishingNext]_<<vars, uploadVars, part>>

PublishingSymmetry == Permutations(Workers) \cup Permutations(PublishCalls)
===============================================================================
