------------------------------- MODULE MCScans -------------------------------
(***************************************************************************)
(* The scanner, which takes the reading of a chat as one step; that        *)
(* reading itself; and the sessions and the erasure of the user who owns   *)
(* the filter.  Each is checked on its own: part says which one moves.     *)
(***************************************************************************)
EXTENDS MCWhatsAppScan, MessageHistory, UserSessions, AccountErasure

VARIABLE part

ScansInit ==
    /\ part \in {"scanner", "history", "sessions", "erasure"}
    /\ ScannerInit /\ HistoryInit /\ AuthInit /\ ErasureInit
    /\ part # "history" => tail = 0 /\ limit = 1
    /\ part # "scanner" => group = [g \in Groups |-> "unused"]

ScansNext ==
    /\ UNCHANGED part
    /\ \/ part = "scanner" /\ ScanNext
                /\ UNCHANGED <<historyVars, authVars, erasureVars>>
       \/ part = "history" /\ HistoryNext
                /\ UNCHANGED <<ScannerVars, authVars, erasureVars>>
       \/ part = "sessions" /\ AuthNext
                /\ UNCHANGED <<ScannerVars, historyVars, erasureVars>>
       \/ part = "erasure" /\ ErasureNext
                /\ UNCHANGED <<ScannerVars, historyVars, authVars>>

ScansSpec ==
    ScansInit
        /\ [][ScansNext]_<<ScannerVars, historyVars, authVars, erasureVars, part>>
===============================================================================
