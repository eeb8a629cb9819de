---------------------------- MODULE MCScanLiveness ----------------------------
(***************************************************************************)
(* What must happen in the end: in the WhatsApp scanner, and under the     *)
(* queue pages.  Each is checked on its own: part says which one moves.    *)
(***************************************************************************)
EXTENDS MCWhatsAppScan, WorkQueues

CONSTANTS ja, ua, ub

OwnerOfJob == [j \in Jobs |-> ua]

VARIABLE part

BothInit ==
    /\ part \in {"scanner", "queues"}
    /\ ScannerInit /\ WorkInit
    /\ part = "queues" => group = [g \in Groups |-> "unused"]

BothNext ==
    /\ UNCHANGED part
    /\ \/ part = "scanner" /\ ScanNext /\ UNCHANGED workVars
       \/ part = "queues" /\ WorkNext /\ UNCHANGED ScannerVars

BothSpec ==
    /\ BothInit /\ [][BothNext]_<<ScannerVars, workVars, part>>
    /\ ScannerFairness /\ WorkFairness
===============================================================================
