------------------------------ MODULE MCBrowsers ------------------------------
(***************************************************************************)
(* The browsers of a WhatsApp device and the chats in a live browser, each *)
(* checked on its own: part says which one moves, the other rests.         *)
(***************************************************************************)
EXTENDS MCWhatsAppBrowsers, LiveChats

CONSTANTS a, b, q1, q2, q3, m1, m2

VARIABLE part

BrowsersInit ==
    /\ part \in {"device", "chats"}
    /\ DeviceInit /\ LiveInit
    /\ part = "device" => site = "whatsapp"
    /\ part = "chats" => /\ row[Device] = "disconnected"
                         /\ group = [g \in Groups |-> "unused"]

BrowsersNext ==
    /\ UNCHANGED part
    /\ \/ part = "device" /\ (BrowserNext \/ ScansMove) /\ UNCHANGED liveVars
       \/ part = "chats" /\ LiveNext /\ UNCHANGED allVars

BrowsersSpec ==
    BrowsersInit /\ [][BrowsersNext]_<<allVars, liveVars, part>>

BrowsersSymmetry == DeviceSymmetry \cup Permutations(Threads)
===============================================================================
