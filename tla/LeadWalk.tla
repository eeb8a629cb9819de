------------------------------ MODULE LeadWalk ------------------------------
(***************************************************************************)
(* What the campaign drip engine promises about the actions LinkedIn sees, *)
(* without rows, messages, locks, sessions or status.  A lead walks the    *)
(* steps of its campaign from the first to the last.  LinkedIn is asked    *)
(* for a step only when every step before it is behind the lead, and for   *)
(* the same step again only as often as there have been lapses: faults,    *)
(* and moves of a lead by its owner, who may start it over or set it past  *)
(* steps.  Nothing else moves a lead but the next step of its walk.        *)
(***************************************************************************)
EXTENDS Integers

CONSTANTS Leads, NumSteps

VARIABLES
    asked,   \* how often LinkedIn was asked for each step of each lead
    behind,  \* the steps behind each lead since it was last started over
    lapses   \* faults and moves by the owner so far

vars  == <<asked, behind, lapses>>
Steps == 1..NumSteps

Init ==
    /\ asked = [l \in Leads |-> [n \in Steps |-> 0]]
    /\ behind = [l \in Leads |-> {}]
    /\ lapses = 0

ComesTo(l, n) == 1..(n - 1) \subseteq behind[l]

\* A step is asked for.  Its answer may be lost, which is a lapse.
Ask(l, n) ==
    /\ ComesTo(l, n)
    /\ asked[l][n] <= lapses
    /\ asked' = [asked EXCEPT ![l][n] = @ + 1]
    /\ lapses' \in {lapses, lapses + 1}
    /\ UNCHANGED behind

\* The step was done, or its condition does not hold.
LeaveBehind(l, n) ==
    /\ ComesTo(l, n)
    /\ behind' = [behind EXCEPT ![l] = @ \cup {n}]
    /\ UNCHANGED <<asked, lapses>>

\* The owner sets leads to a step, or starts them over.
SetTo(l, n) ==
    /\ behind' = [behind EXCEPT ![l] = @ \cup 1..(n - 1)]
    /\ lapses' = lapses + 1
    /\ UNCHANGED asked

StartOver(S) ==
    /\ behind' = [l \in Leads |-> IF l \in S THEN {} ELSE behind[l]]
    /\ lapses' = lapses + 1
    /\ UNCHANGED asked

Lapse ==
    /\ lapses' = lapses + 1
    /\ UNCHANGED <<asked, behind>>

Next ==
    \/ \E l \in Leads, n \in Steps : Ask(l, n) \/ LeaveBehind(l, n)
    \/ \E l \in Leads, n \in 0..NumSteps : SetTo(l, n)
    \/ \E S \in SUBSET Leads : StartOver(S)
    \/ Lapse

Spec == Init /\ [][Next]_vars
=============================================================================
