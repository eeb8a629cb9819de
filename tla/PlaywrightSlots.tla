---------------------------- MODULE PlaywrightSlots ----------------------------
(***************************************************************************)
(* The Redis counter that bounds the browsers of all workers               *)
(* (worker/playwright_semaphore.py): INCR, then keep the slot or DECR and  *)
(* try again five seconds later, for five minutes.  The key expires an     *)
(* hour after the last slot was granted.                                   *)
(***************************************************************************)
EXTENDS Integers

CONSTANT MaxSlots    \* settings.MAX_CONCURRENT_PLAYWRIGHT

ASSUME SlotsAssumption == MaxSlots \in Nat \ {0}

VARIABLE slotCount    \* playwright:active_sessions, 0 when there is no key

SlotsInit == slotCount = 0

SlotIncr == slotCount' = slotCount + 1
SlotDecr == slotCount' = slotCount - 1

\* What INCR returned decides.
SlotGranted(n) == n <= MaxSlots

SlotKeyExpires == slotCount # 0 /\ slotCount' = 0
=============================================================================
