--------------------------- MODULE MCWhatsAppScan ---------------------------
(* Instances of the WhatsApp scanner for TLC. *)
EXTENDS WhatsAppScan, TLC

CONSTANTS f1, g1, c1, w1, w2, t1, t2

OneGroup   == (g1 :> f1)
OneChat    == (g1 :> c1)
AnySession == [f \in Filters |-> 0]
AllMatch   == {c1} \X (1..MaxMsgs)
FirstMatches == {<<c1, 1>>}
ScanSymmetry == Permutations(Workers) \cup Permutations(Tokens)
=============================================================================
