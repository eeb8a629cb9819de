------------------------- MODULE MCWhatsAppBrowsers -------------------------
(* Instances of one WhatsApp device and its browsers for TLC. *)
EXTENDS WhatsAppBrowsers, TLC

CONSTANTS f1, g1, c1, w1, t1, r1, r2, v1, v2

OneGroup   == (g1 :> f1)
OneChat    == (g1 :> c1)
AnySession == [f \in Filters |-> 0]
DeviceSymmetry == Permutations(Requests) \cup Permutations(Watches)
=============================================================================
