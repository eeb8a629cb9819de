-------------------------- MODULE MCCampaignSession --------------------------
(* Instances of CampaignSession for TLC. *)
EXTENDS CampaignSession, TLC

CONSTANTS l1, l2, c1, w1, w2, t1

\* Every lead is in the one campaign.
OneCampaign == [l \in Leads |-> c1]

\* Step lists (a like counts as a visit) and the conditions of their steps.
VisitConnect     == <<"visit", "connect">>
ConnectMessage   == <<"connect", "message">>
ConnectLikeMessage == <<"connect", "visit", "message">>
Unconditional    == [n \in Steps |-> "none"]
LastIfAccepted   == [n \in Steps |-> IF n = NumSteps THEN "accepted" ELSE "none"]
Skippable        == [n \in Steps |-> IF n = 2 THEN "not_accepted" ELSE "none"]

\* Leads of one campaign and workers are interchangeable.
Symmetry == Permutations(Leads) \cup Permutations(Workers)
==============================================================================
