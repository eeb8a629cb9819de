-------------------------- MODULE WhatsAppSessions --------------------------
(***************************************************************************)
(* The WhatsApp devices of one user: the session rows that the API and the *)
(* scan task share, and the durable Chromium profiles behind them.         *)
(* Profiles are numbered like the rows, so the newest has the largest id.  *)
(***************************************************************************)
EXTENDS Naturals, ProfileLocks

ASSUME ProfilesAssumption == Profiles \subseteq Nat

VARIABLES
    row,        \* status of the WhatsAppSession row
    profile     \* what the profile directory holds

RowStatus    == {"waiting_qr", "connected", "disconnected", "error"}
ProfileState == {"missing", "blank", "linked"}

SessionTypeOK ==
    /\ row \in [Profiles -> RowStatus]
    /\ profile \in [Profiles -> ProfileState]

Connected == {p \in Profiles : row[p] = "connected"}
Newest(S) == {p \in S : \A q \in S : q <= p}

\* A filter names its session or takes the newest connected one.
SessionFor(bound) == IF bound \in Profiles THEN Connected \cap {bound}
                     ELSE Newest(Connected)

SetRow(p, st) == row' = [row EXCEPT ![p] = st]
=============================================================================
