----------------------------- MODULE PublishOnce -----------------------------
(***************************************************************************)
(* What the social publisher promises, without rows, leases, messages or   *)
(* workers.  A post is handed out for publishing; each handout is claimed  *)
(* at most once; a claim opens one attempt per platform; an attempt is     *)
(* made at most once, lands or not, or is given up.  A platform therefore  *)
(* has at most as many copies of a post as the post had handouts.          *)
(***************************************************************************)
EXTENDS Naturals

CONSTANTS Posts, Platforms

VARIABLES
    handouts,   \* how often each post was handed out
    claims,     \* the claimed handouts: <<post, number>>
    open,       \* the attempts not made yet
    uploaded    \* the copies the platforms have

vars == <<handouts, claims, open, uploaded>>

Init ==
    /\ handouts = [p \in Posts |-> 0]
    /\ claims = {}
    /\ open = {}
    /\ uploaded = {}

HandOut(S) ==
    /\ handouts' = [p \in Posts |-> IF p \in S THEN handouts[p] + 1
                                               ELSE handouts[p]]
    /\ UNCHANGED <<claims, open, uploaded>>

Claim(p, T) ==
    /\ <<p, handouts[p]>> \notin claims
    /\ claims' = claims \cup {<<p, handouts[p]>>}
    /\ open' = open \cup {[post |-> p, platform |-> pl,
                           handout |-> handouts[p]] : pl \in T}
    /\ UNCHANGED <<handouts, uploaded>>

Attempt(c) ==
    /\ c \in open
    /\ open' = open \ {c}
    /\ uploaded' \in {uploaded, uploaded \cup {c}}
    /\ UNCHANGED <<handouts, claims>>

GiveUp(C) ==
    /\ open' = open \ C
    /\ UNCHANGED <<handouts, claims, uploaded>>

Next ==
    \/ \E S \in SUBSET Posts : HandOut(S)
    \/ \E p \in Posts, T \in SUBSET Platforms : Claim(p, T)
    \/ \E c \in open : Attempt(c)
    \/ \E C \in SUBSET open : GiveUp(C)

Spec == Init /\ [][Next]_vars
==============================================================================
